---------------------------- MODULE Spec2Model ----------------------------
(***************************************************************************)
(* A model of pykeen's rank-based evaluation core:                         *)
(*   - src/src/pykeen/evaluation/metrics.py  (MetricKey grammar, metric    *)
(*     reductions, weighted statistics)                                    *)
(*   - src/src/pykeen/evaluation/rank_based_evaluator.py  (the micro,      *)
(*     sampled and macro rank accumulators)                                *)
(*                                                                         *)
(* Numbers.  The code computes with IEEE doubles; the model computes with  *)
(* exact rationals <<numerator, denominator>> (denominator > 0), compared  *)
(* by cross-multiplication.  Rounding of doubles is not modelled.          *)
(***************************************************************************)
EXTENDS Integers, Sequences, FiniteSets, TLC

VARIABLES
    variant,        \* which class the instance is: "micro", "sampled", "macro"
    ranks,          \* self.ranks: (target, rank type) -> list of ranks
    keys,           \* self.keys (macro): target -> list of grouping keys
    num_entities,   \* self.num_entities: None or the recorded candidate count
    ret,            \* the outcome of the most recent call on the instance
    ingested,       \* history: a process_scores_ call has returned on the instance
    finalized,      \* history: a finalize call has returned on the instance
    spec,           \* the metric specification string at hand, as its characters
    kret,           \* the outcome of the most recent MetricKey call on spec
    neg,            \* the most recent negative-sampling call: its arguments and outcome
    gret,           \* the most recent get_metric call: its argument and outcome
    stat,           \* the most recent call of a statistic: its arguments and outcome
    race            \* unsynchronized callers of one macro accumulator: where each stands

accVars == <<variant, ranks, keys, num_entities, ret, ingested, finalized>>

keyVars == <<spec, kret>>

callVars == <<neg, gret, stat, race>>

---------------------------------------------------------------------------
(* Bounds of the model *)

(* the most observations the buffers of the instance hold *)
MaxObs == 2

(* num_negatives of the sampled instance: the columns of its negative tables *)
NumNegatives == 1

---------------------------------------------------------------------------
(* pykeen.typing / pykeen.constants *)

LABEL_HEAD == "head"

LABEL_RELATION == "relation"

LABEL_TAIL == "tail"

SIDE_BOTH == "both"

SIDES == <<LABEL_HEAD, LABEL_TAIL, SIDE_BOTH>>

RANK_OPTIMISTIC == "optimistic"

RANK_PESSIMISTIC == "pessimistic"

RANK_REALISTIC == "realistic"

RANK_EXPECTED_REALISTIC == "expected_realistic"

RANK_TYPES == <<RANK_OPTIMISTIC, RANK_REALISTIC, RANK_PESSIMISTIC>>

EXPECTED_RANKS == [rt \in {RANK_REALISTIC} |-> RANK_EXPECTED_REALISTIC]

TARGET_TO_INDEX == [t \in {LABEL_HEAD, LABEL_RELATION, LABEL_TAIL} |->
                      IF t = LABEL_HEAD THEN 1 ELSE IF t = LABEL_RELATION THEN 2 ELSE 3]

Range(f) == {f[i] : i \in DOMAIN f}

Targets == {LABEL_HEAD, LABEL_TAIL}

ExtendedRankTypes == Range(RANK_TYPES) \cup {RANK_EXPECTED_REALISTIC}

(* self.num_entities = None *)
None == -1

---------------------------------------------------------------------------
(* Exact arithmetic standing for the code's float arithmetic *)

RECURSIVE GCD(_, _)
GCD(a, b) == IF b = 0 THEN a ELSE GCD(b, a % b)

Abs(n) == IF n < 0 THEN 0 - n ELSE n

(* the fraction n/d (d # 0) in lowest terms with a positive denominator *)
Rat(n, d) ==
    LET g == GCD(Abs(n), Abs(d))
    IN  IF d < 0 THEN <<(0 - n) \div g, (0 - d) \div g>> ELSE <<n \div g, d \div g>>

RInt(n) == <<n, 1>>

RAdd(a, b) == Rat(a[1] * b[2] + b[1] * a[2], a[2] * b[2])

RSub(a, b) == Rat(a[1] * b[2] - b[1] * a[2], a[2] * b[2])

RMul(a, b) == Rat(a[1] * b[1], a[2] * b[2])

RDiv(a, b) == Rat(a[1] * b[2], a[2] * b[1])

RIsZero(a) == a[1] = 0

REq(a, b) == a[1] * b[2] = b[1] * a[2]

RLeq(a, b) == a[1] * b[2] <= b[1] * a[2]

RLess(a, b) == a[1] * b[2] < b[1] * a[2]

RECURSIVE RSum(_)
RSum(q) == IF q = <<>> THEN RInt(0) ELSE RAdd(Head(q), RSum(Tail(q)))

(* a metric value: an exact number, the value of a reduction the model does
   not evaluate (geometric and harmonic means, standard deviation, ...: only
   the presence of the entry is modelled), or the not-a-number sentinel *)
Exact(q) == [kind |-> "exact", q |-> q]

Opaque(f) == [kind |-> "opaque", f |-> f]

NaN == [kind |-> "nan"]

(* ascending stable sort of the indices of a (np.argsort on fewer than 17
   elements is an insertion sort, hence stable) *)
RECURSIVE InsertIdx(_, _, _)
InsertIdx(a, sorted, i) ==
    IF sorted = <<>> THEN <<i>>
    ELSE IF RLeq(a[sorted[Len(sorted)]], a[i]) THEN Append(sorted, i)
    ELSE Append(InsertIdx(a, SubSeq(sorted, 1, Len(sorted) - 1), i), sorted[Len(sorted)])

RECURSIVE ArgsortUpTo(_, _)
ArgsortUpTo(a, n) == IF n = 0 THEN <<>> ELSE InsertIdx(a, ArgsortUpTo(a, n - 1), n)

Argsort(a) == ArgsortUpTo(a, Len(a))

Take(a, idx) == [i \in 1..Len(idx) |-> a[idx[i]]]

---------------------------------------------------------------------------
(* Metric function registry: ALL_TYPE_FUNCS, get_ranking_metrics *)

ARITHMETIC_MEAN_RANK == "arithmetic_mean_rank"

GEOMETRIC_MEAN_RANK == "geometric_mean_rank"

HARMONIC_MEAN_RANK == "harmonic_mean_rank"

MEDIAN_RANK == "median_rank"

INVERSE_ARITHMETIC_MEAN_RANK == "inverse_arithmetic_mean_rank"

INVERSE_GEOMETRIC_MEAN_RANK == "inverse_geometric_mean_rank"

INVERSE_HARMONIC_MEAN_RANK == "inverse_harmonic_mean_rank"

INVERSE_MEDIAN_RANK == "inverse_median_rank"

ADJUSTED_ARITHMETIC_MEAN_RANK == "adjusted_arithmetic_mean_rank"

ADJUSTED_ARITHMETIC_MEAN_RANK_INDEX == "adjusted_arithmetic_mean_rank_index"

RANK_STD == "rank_std"

RANK_VARIANCE == "rank_var"

RANK_MAD == "rank_mad"

RANK_COUNT == "rank_count"

TYPES_REALISTIC_ONLY == {ADJUSTED_ARITHMETIC_MEAN_RANK, ADJUSTED_ARITHMETIC_MEAN_RANK_INDEX}

(* np.mean *)
np_mean(x) == RDiv(RSum(x), RInt(Len(x)))

(* np.median *)
np_median(x) ==
    LET srt == Take(x, Argsort(x))
        n == Len(x)
    IN  IF n % 2 = 1 THEN srt[(n + 1) \div 2]
        ELSE RDiv(RAdd(srt[n \div 2], srt[n \div 2 + 1]), RInt(2))

(* the names of ALL_TYPE_FUNCS *)
RegistryNames ==
    {ARITHMETIC_MEAN_RANK, HARMONIC_MEAN_RANK, GEOMETRIC_MEAN_RANK, MEDIAN_RANK,
     INVERSE_ARITHMETIC_MEAN_RANK, INVERSE_GEOMETRIC_MEAN_RANK,
     INVERSE_HARMONIC_MEAN_RANK, INVERSE_MEDIAN_RANK,
     RANK_STD, RANK_VARIANCE, RANK_MAD, RANK_COUNT}

(* ALL_TYPE_FUNCS[name](x).item() *)
ALL_TYPE_FUNCS(name, x) ==
    CASE name = ARITHMETIC_MEAN_RANK -> Exact(np_mean(x))
      [] name = MEDIAN_RANK -> Exact(np_median(x))
      [] name = INVERSE_ARITHMETIC_MEAN_RANK -> Exact(RDiv(RInt(1), np_mean(x)))
      [] name = INVERSE_MEDIAN_RANK -> Exact(RDiv(RInt(1), np_median(x)))
      [] name = RANK_COUNT -> Exact(RInt(Len(x)))
      [] OTHER -> Opaque(name)

get_ranking_metrics(x) == [name \in RegistryNames |-> ALL_TYPE_FUNCS(name, x)]

---------------------------------------------------------------------------
(* Inputs of process_scores_ *)

Entities == {0, 1}

Relations == {0}

(* the evaluation triples, the rows of hrt_batch: two triples with different
   (relation, tail) keys and the same (head, relation) key, which is also the
   (relation, tail) key of the first *)
Triples == {t \in Entities \X Relations \X Entities : t[1] = 0}

(* the triples a batch is drawn from: the micro accumulator never reads
   hrt_batch and the sampled one only uses it to find the rows of its negative
   tables, so one triple stands for all of them there *)
BatchTriples(v) == IF v = "macro" THEN Triples ELSE {<<0, 0, 0>>}

(* scores.shape[1] of the batches fed to the micro and macro instances: a
   single candidate (the expected rank is then 1) and more than one *)
Widths == {1, 2}

(* the batches of at most n rows over S; no row is read when the true scores
   are missing, so the empty batch stands for all batches there *)
Batches(S, n, true_scores) == IF true_scores THEN UNION {[1..m -> S] : m \in 0..n} ELSE {<<>>}

(* One example of a batch: its triple and what the rank computation finds for
   it among c candidates: optimistic rank o and pessimistic rank p. *)
Rows(c, triples) == {r \in [hrt : triples, o : 1..c, p : 1..c] : r.o <= r.p}

(* Ranks.from_scores(true_score, all_scores).items(): per rank type, one rank
   per row.  c is all_scores.shape[1]. *)
Ranks_from_scores(rows, c) ==
    [rt \in ExtendedRankTypes |->
        [i \in 1..Len(rows) |->
            CASE rt = RANK_OPTIMISTIC -> RInt(rows[i].o)
              [] rt = RANK_PESSIMISTIC -> RInt(rows[i].p)
              [] rt = RANK_REALISTIC -> (Rat(rows[i].o + rows[i].p, 2))
              [] rt = RANK_EXPECTED_REALISTIC -> (Rat(c + 1, 2))]]

---------------------------------------------------------------------------
(* Outcomes of a call *)

NoResults == [hits_at_k |-> <<>>, asr |-> <<>>]

(* whether results hold data[name][side][rank_type] *)
HasEntry(results, name, pr) == pr \in DOMAIN results.asr /\ name \in DOMAIN results.asr[pr]

(* true_scores logs whether the call was given true scores (TRUE for the
   calls that take none); target and rows log the batch of a call on the macro
   accumulator; width logs scores.shape[1] where a call on the sampled
   accumulator read it, 0 where it did not *)
Returned(op, results) ==
    [op |-> op, ok |-> TRUE, error |-> "", results |-> results, true_scores |-> TRUE,
     target |-> "", rows |-> <<>>, width |-> 0]

Raised(op, error) ==
    [op |-> op, ok |-> FALSE, error |-> error, results |-> NoResults, true_scores |-> TRUE,
     target |-> "", rows |-> <<>>, width |-> 0]

---------------------------------------------------------------------------
(* RankBasedEvaluator *)

(* self.ks: the default (1, 3, 5, 10) cut to the ranks the model reaches,
   plus one relative k *)
IntK(k) == [isint |-> TRUE, q |-> RInt(k)]

FloatK(n, d) == [isint |-> FALSE, q |-> Rat(n, d)]

ks == <<IntK(1), IntK(3), FloatK(1, 2)>>

(* self.ranks[target, rank_type].extend(v) for every rank type *)
ExtendRanks(rk, target, batch_ranks) ==
    [pr \in DOMAIN rk |-> IF pr[1] = target THEN rk[pr] \o batch_ranks[pr[2]] ELSE rk[pr]]

(* an ingest that records the candidate count before it looks for the true
   scores *)
RankBased_process_scores_recording_first(rk, ne, target, rows, c, true_scores) ==
    IF ~true_scores
    THEN [ranks |-> rk, num_entities |-> c, ret |-> Raised("process_scores_", "ValueError")]
    ELSE [ranks |-> ExtendRanks(rk, target, Ranks_from_scores(rows, c)),
          num_entities |-> c,
          ret |-> Returned("process_scores_", NoResults)]

(* RankBasedEvaluator.process_scores_: the state after the call, as
   [ranks, num_entities, ret] *)
RankBased_process_scores_(rk, ne, target, rows, c, true_scores) ==
    IF ~true_scores
    THEN [ranks |-> rk, num_entities |-> ne, ret |-> Raised("process_scores_", "ValueError")]
    ELSE [ranks |-> ExtendRanks(rk, target, Ranks_from_scores(rows, c)),
          num_entities |-> c,
          ret |-> Returned("process_scores_", NoResults)]

_get_ranks(rk, side, rank_type) ==
    IF side = SIDE_BOTH
    THEN rk[<<LABEL_HEAD, rank_type>>] \o rk[<<LABEL_TAIL, rank_type>>]
    ELSE rk[<<side, rank_type>>]

(* a threshold that rounds the fractional product up *)
Threshold_rounding_up(k, ne) ==
    IF k.isint THEN k.q[1] ELSE (ne * k.q[1] + k.q[2] - 1) \div k.q[2]

(* k if isinstance(k, int) else int(self.num_entities * k) *)
Threshold(k, ne) == IF k.isint THEN k.q[1] ELSE (ne * k.q[1]) \div k.q[2]

(* the boolean array ranks <= threshold, as 0/1 *)
HitsArray(x, thr) == [i \in 1..Len(x) |-> IF RLeq(x[i], RInt(thr)) THEN RInt(1) ELSE RInt(0)]

(* {k: np.mean(ranks <= threshold(k)) for k in self.ks}, indexed by position in ks *)
HitsAtK(x, ne) == [j \in 1..Len(ks) |-> Exact(np_mean(HitsArray(x, Threshold(ks[j], ne))))]

(* a loop that skips a pair unless it has two observations *)
PairsWithRanks_above_one(rk) ==
    {pr \in Range(SIDES) \X Range(RANK_TYPES) : Len(_get_ranks(rk, pr[1], pr[2])) > 1}

(* the (side, rank type) pairs the loop does not skip *)
PairsWithRanks(rk) ==
    {pr \in Range(SIDES) \X Range(RANK_TYPES) : Len(_get_ranks(rk, pr[1], pr[2])) >= 1}

(* adjusted metrics computed for the single sides only *)
PairsAdjusted_single_sides(rk) ==
    {pr \in PairsWithRanks(rk) :
        /\ pr[1] # SIDE_BOTH
        /\ pr[2] \in DOMAIN EXPECTED_RANKS
        /\ 0 < Len(_get_ranks(rk, pr[1], EXPECTED_RANKS[pr[2]]))}

(* the pairs for which the adjusted metrics are computed *)
PairsAdjusted(rk) ==
    {pr \in PairsWithRanks(rk) :
        /\ pr[2] \in DOMAIN EXPECTED_RANKS
        /\ 0 < Len(_get_ranks(rk, pr[1], EXPECTED_RANKS[pr[2]]))}

expected_mean_rank(rk, pr) == np_mean(_get_ranks(rk, pr[1], EXPECTED_RANKS[pr[2]]))

(* float division by expected_mean_rank - 1 == 0.0 raises ZeroDivisionError *)
AdjustedRaises(rk) ==
    \E pr \in PairsAdjusted(rk) : RIsZero(RSub(expected_mean_rank(rk, pr), RInt(1)))

(* an index computed without shifting the two means by one *)
AdjustedValue_unshifted(rk, name, pr) ==
    LET amr == np_mean(_get_ranks(rk, pr[1], pr[2]))
        emr == expected_mean_rank(rk, pr)
    IN  IF name = ADJUSTED_ARITHMETIC_MEAN_RANK
        THEN Exact(RDiv(amr, emr))
        ELSE Exact(RSub(RInt(1), RDiv(amr, emr)))

(* the adjusted mean rank and the adjusted mean rank index of a pair *)
AdjustedValue(rk, name, pr) ==
    LET amr == np_mean(_get_ranks(rk, pr[1], pr[2]))
        emr == expected_mean_rank(rk, pr)
    IN  IF name = ADJUSTED_ARITHMETIC_MEAN_RANK
        THEN Exact(RDiv(amr, emr))
        ELSE Exact(RSub(RInt(1), RDiv(RSub(amr, RInt(1)), RSub(emr, RInt(1)))))

(* the names written for a pair the loop does not skip *)
NamesWritten(rk, pr) ==
    RegistryNames \cup (IF pr \in PairsAdjusted(rk) THEN TYPES_REALISTIC_ONLY ELSE {})

(* the result mapping, keyed by (side, rank type) first: hits_at_k maps the
   pair to the per-k values, asr maps it to the metrics written for it *)
RankBased_results(rk, ne) ==
    [hits_at_k |-> [pr \in PairsWithRanks(rk) |-> HitsAtK(_get_ranks(rk, pr[1], pr[2]), ne)],
     asr |-> [pr \in PairsWithRanks(rk) |->
                [name \in NamesWritten(rk, pr) |->
                    IF name \in TYPES_REALISTIC_ONLY
                    THEN AdjustedValue(rk, name, pr)
                    ELSE ALL_TYPE_FUNCS(name, _get_ranks(rk, pr[1], pr[2]))]]]

EmptyRanks == [pr \in Targets \X ExtendedRankTypes |-> <<>>]

(* a finalize that computes the results without looking at num_entities first *)
RankBased_finalize_unchecked(rk, ne) ==
    IF AdjustedRaises(rk)
    THEN [ranks |-> rk, num_entities |-> ne, ret |-> Raised("finalize", "ZeroDivisionError")]
    ELSE [ranks |-> EmptyRanks, num_entities |-> ne,
          ret |-> Returned("finalize", IF ne = None THEN NoResults ELSE RankBased_results(rk, ne))]

(* a finalize that forgets the candidate count when it clears the buffers *)
RankBased_finalize_resetting(rk, ne) ==
    IF ne = None THEN [ranks |-> rk, num_entities |-> ne, ret |-> Raised("finalize", "ValueError")]
    ELSE IF AdjustedRaises(rk)
    THEN [ranks |-> rk, num_entities |-> ne, ret |-> Raised("finalize", "ZeroDivisionError")]
    ELSE [ranks |-> EmptyRanks, num_entities |-> None,
          ret |-> Returned("finalize", RankBased_results(rk, ne))]

(* RankBasedEvaluator.finalize: the state after the call, as
   [ranks, num_entities, ret]; num_entities is read and never assigned *)
RankBased_finalize(rk, ne) ==
    IF ne = None THEN [ranks |-> rk, num_entities |-> ne, ret |-> Raised("finalize", "ValueError")]
    ELSE IF AdjustedRaises(rk)
    THEN [ranks |-> rk, num_entities |-> ne, ret |-> Raised("finalize", "ZeroDivisionError")]
    ELSE [ranks |-> EmptyRanks, num_entities |-> ne,
          ret |-> Returned("finalize", RankBased_results(rk, ne))]

---------------------------------------------------------------------------
(* SampledRankBasedEvaluator *)

(* evaluation_factory.num_entities, recorded by __init__, which refuses more
   negatives than entities *)
FactoryNumEntities == NumNegatives + 1

(* an ingest that leaves the candidate count the superclass call recorded *)
Sampled_process_scores_without_write_back(rk, ne, target, rows, c, true_scores) ==
    IF ~true_scores
    THEN [ranks |-> rk, num_entities |-> ne, ret |-> Raised("process_scores_", "ValueError")]
    ELSE RankBased_process_scores_(rk, ne, target, rows, 1 + NumNegatives, true_scores)

(* SampledRankBasedEvaluator.process_scores_: the ranks are computed among the
   true score and the sampled negatives (1 + NumNegatives columns); c is the
   width of the scorer's full array, written back after the delegation *)
Sampled_process_scores_(rk, ne, target, rows, c, true_scores) ==
    IF ~true_scores
    THEN [ranks |-> rk, num_entities |-> ne, ret |-> Raised("process_scores_", "ValueError")]
    ELSE LET sup == RankBased_process_scores_(rk, ne, target, rows, 1 + NumNegatives, true_scores)
         IN  [sup EXCEPT !.num_entities = c]

---------------------------------------------------------------------------
(* Weighted statistics: weighted_median, get_macro_ranking_metrics *)

(* np.average(x, weights=w) *)
np_average(x, w) == RDiv(RSum([i \in 1..Len(x) |-> RMul(x[i], w[i])]), RSum(w))

(* np.cumsum(np.r_[0, s_weights]) / total: entry i (1-based) is the weight
   fraction of the first i - 1 sorted elements *)
cum_sum(s_weights) ==
    [i \in 1..(Len(s_weights) + 1) |->
        RDiv(RSum(SubSeq(s_weights, 1, i - 1)), RSum(s_weights))]

(* np.searchsorted(a, v) (side="left") on an ascending a: the 0-based index of
   the first entry >= v, len(a) if there is none *)
np_searchsorted(a, v) == Cardinality({i \in 1..Len(a) : RLess(a[i], v)})

(* the 0-based index weighted_median reads s_ranks at *)
weighted_median_idx(a, weights) ==
    np_searchsorted(cum_sum(Take(weights, Argsort(a))), <<1, 2>>)

(* s_ranks[idx] raises IndexError when idx == len(s_ranks) *)
weighted_median_raises(a, weights) == weighted_median_idx(a, weights) >= Len(a)

weighted_median(a, weights) == Take(a, Argsort(a))[weighted_median_idx(a, weights) + 1]

MacroNames ==
    {ARITHMETIC_MEAN_RANK, GEOMETRIC_MEAN_RANK, HARMONIC_MEAN_RANK, MEDIAN_RANK,
     INVERSE_ARITHMETIC_MEAN_RANK, INVERSE_GEOMETRIC_MEAN_RANK,
     INVERSE_HARMONIC_MEAN_RANK, INVERSE_MEDIAN_RANK,
     RANK_STD, RANK_VARIANCE, RANK_MAD, RANK_COUNT}

weighted_variance(x, w) ==
    LET mean == np_average(x, w)
    IN  np_average([i \in 1..Len(x) |-> RMul(RSub(x[i], mean), RSub(x[i], mean))], w)

(* the pairs get_macro_ranking_metrics yields, where weighted_median returns *)
get_macro_ranking_metrics(x, w) ==
    LET mean == np_average(x, w)
        median == weighted_median(x, w)
    IN
    [name \in MacroNames |->
        CASE name = ARITHMETIC_MEAN_RANK -> Exact(mean)
          [] name = MEDIAN_RANK -> Exact(median)
          [] name = INVERSE_ARITHMETIC_MEAN_RANK -> Exact(RDiv(RInt(1), mean))
          [] name = INVERSE_MEDIAN_RANK -> Exact(RDiv(RInt(1), median))
          [] name = RANK_VARIANCE -> Exact(weighted_variance(x, w))
          [] name = RANK_COUNT -> Exact(RInt(Len(x)))
          [] name \in {HARMONIC_MEAN_RANK, INVERSE_HARMONIC_MEAN_RANK, RANK_MAD} -> NaN
          [] OTHER -> Opaque(name)]

---------------------------------------------------------------------------
(* MacroRankBasedEvaluator *)

(* hrt_batch[:, key_ids]: the two columns of a triple other than the target's *)
KeyOf(hrt, target) ==
    LET key_ids == SelectSeq(<<1, 2, 3>>, LAMBDA i : i # TARGET_TO_INDEX[target])
    IN  <<hrt[key_ids[1]], hrt[key_ids[2]]>>

(* a key append that leaves the key buffers as they are *)
Macro_extend_keys_dropped(ky, target, rows) == ky

(* self.keys[target].extend(hrt_batch[:, key_ids].tolist()): the second
   statement of MacroRankBasedEvaluator.process_scores_ *)
Macro_extend_keys(ky, target, rows) ==
    [ky EXCEPT ![target] = @ \o [i \in 1..Len(rows) |-> KeyOf(rows[i].hrt, target)]]

(* an ingest that appends the keys of a batch last row first *)
Macro_process_scores_keys_reversed(rk, ky, ne, target, rows, c, true_scores) ==
    LET sup == RankBased_process_scores_(rk, ne, target, rows, c, true_scores)
    IN  IF ~sup.ret.ok
        THEN [ranks |-> sup.ranks, keys |-> ky, num_entities |-> sup.num_entities, ret |-> sup.ret]
        ELSE [ranks |-> sup.ranks,
              keys |-> [ky EXCEPT ![target] = @ \o [i \in 1..Len(rows) |-> KeyOf(rows[Len(rows) + 1 - i].hrt, target)]],
              num_entities |-> sup.num_entities,
              ret |-> sup.ret]

(* MacroRankBasedEvaluator.process_scores_: the state after the call, as
   [ranks, keys, num_entities, ret]; the keys are appended after the
   superclass call returned *)
Macro_process_scores_(rk, ky, ne, target, rows, c, true_scores) ==
    LET sup == RankBased_process_scores_(rk, ne, target, rows, c, true_scores)
    IN  IF ~sup.ret.ok
        THEN [ranks |-> sup.ranks, keys |-> ky, num_entities |-> sup.num_entities, ret |-> sup.ret]
        ELSE [ranks |-> sup.ranks,
              keys |-> Macro_extend_keys(ky, target, rows),
              num_entities |-> sup.num_entities,
              ret |-> sup.ret]

_get_keys(ky, side) ==
    IF side = SIDE_BOTH THEN ky[LABEL_HEAD] \o ky[LABEL_TAIL] ELSE ky[side]

(* weights that give every row the same share of the whole *)
Weights_uniform(kys) == [i \in 1..Len(kys) |-> <<1, Len(kys)>>]

(* unique_weights[unique_inverse]: the reciprocal of the number of
   occurrences of each row's key *)
Weights(kys) ==
    [i \in 1..Len(kys) |-> <<1, Cardinality({j \in 1..Len(kys) : kys[j] = kys[i]})>>]

(* np.average(ranks <= threshold(k), weights=weights) for k in self.ks *)
MacroHitsAtK(x, w, ne) ==
    [j \in 1..Len(ks) |-> Exact(np_average(HitsArray(x, Threshold(ks[j], ne)), w))]

(* the loop order of finalize: for side in SIDES, for rank_type in RANK_TYPES *)
MacroPairs == [i \in 1..(Len(SIDES) * Len(RANK_TYPES)) |->
                 <<SIDES[((i - 1) \div Len(RANK_TYPES)) + 1],
                   RANK_TYPES[((i - 1) % Len(RANK_TYPES)) + 1]>>]

(* what one iteration of the loop raises, "" if nothing:
   assert ranks.shape == weights.shape, then s_ranks[idx] in weighted_median *)
MacroPairError(rk, ky, pr) ==
    LET x == _get_ranks(rk, pr[1], pr[2])
        kys == _get_keys(ky, pr[1])
    IN  IF Len(x) # Len(kys) THEN "AssertionError"
        ELSE IF Len(x) < 1 THEN ""
        ELSE IF weighted_median_raises(x, Weights(kys)) THEN "IndexError"
        ELSE ""

(* the error of the first iteration that raises, "" if none does *)
RECURSIVE MacroErrorFrom(_, _, _)
MacroErrorFrom(rk, ky, i) ==
    IF i > Len(MacroPairs) THEN ""
    ELSE IF MacroPairError(rk, ky, MacroPairs[i]) # "" THEN MacroPairError(rk, ky, MacroPairs[i])
    ELSE MacroErrorFrom(rk, ky, i + 1)

Macro_results(rk, ky, ne) ==
    [hits_at_k |-> [pr \in PairsWithRanks(rk) |->
                      MacroHitsAtK(_get_ranks(rk, pr[1], pr[2]), Weights(_get_keys(ky, pr[1])), ne)],
     asr |-> [pr \in PairsWithRanks(rk) |->
                get_macro_ranking_metrics(_get_ranks(rk, pr[1], pr[2]), Weights(_get_keys(ky, pr[1])))]]

(* MacroRankBasedEvaluator.finalize: the state after the call, as
   [ranks, keys, num_entities, ret]; the method ends without clearing either
   buffer, and num_entities is read and never assigned *)
Macro_finalize(rk, ky, ne) ==
    IF ne = None
    THEN [ranks |-> rk, keys |-> ky, num_entities |-> ne, ret |-> Raised("finalize", "ValueError")]
    ELSE IF MacroErrorFrom(rk, ky, 1) # ""
    THEN [ranks |-> rk, keys |-> ky, num_entities |-> ne,
          ret |-> Raised("finalize", MacroErrorFrom(rk, ky, 1))]
    ELSE [ranks |-> rk, keys |-> ky, num_entities |-> ne,
          ret |-> Returned("finalize", Macro_results(rk, ky, ne))]

---------------------------------------------------------------------------
(* Strings.  A Python str is modelled as the sequence of its characters; S(w)
   is the string written w. *)

S(w) ==
    CASE w = "head" -> <<"h", "e", "a", "d">>
      [] w = "tail" -> <<"t", "a", "i", "l">>
      [] w = "both" -> <<"b", "o", "t", "h">>
      [] w = "optimistic" -> <<"o", "p", "t", "i", "m", "i", "s", "t", "i", "c">>
      [] w = "realistic" -> <<"r", "e", "a", "l", "i", "s", "t", "i", "c">>
      [] w = "pessimistic" -> <<"p", "e", "s", "s", "i", "m", "i", "s", "t", "i", "c">>
      [] w = "best" -> <<"b", "e", "s", "t">>
      [] w = "worst" -> <<"w", "o", "r", "s", "t">>
      [] w = "avg" -> <<"a", "v", "g">>
      [] w = "average" -> <<"a", "v", "e", "r", "a", "g", "e">>
      [] w = "arithmetic_mean_rank" -> <<"a", "r", "i", "t", "h", "m", "e", "t", "i", "c", "_", "m", "e", "a", "n", "_", "r", "a", "n", "k">>
      [] w = "geometric_mean_rank" -> <<"g", "e", "o", "m", "e", "t", "r", "i", "c", "_", "m", "e", "a", "n", "_", "r", "a", "n", "k">>
      [] w = "harmonic_mean_rank" -> <<"h", "a", "r", "m", "o", "n", "i", "c", "_", "m", "e", "a", "n", "_", "r", "a", "n", "k">>
      [] w = "median_rank" -> <<"m", "e", "d", "i", "a", "n", "_", "r", "a", "n", "k">>
      [] w = "inverse_arithmetic_mean_rank" -> <<"i", "n", "v", "e", "r", "s", "e", "_", "a", "r", "i", "t", "h", "m", "e", "t", "i", "c", "_", "m", "e", "a", "n", "_", "r", "a", "n", "k">>
      [] w = "inverse_geometric_mean_rank" -> <<"i", "n", "v", "e", "r", "s", "e", "_", "g", "e", "o", "m", "e", "t", "r", "i", "c", "_", "m", "e", "a", "n", "_", "r", "a", "n", "k">>
      [] w = "inverse_harmonic_mean_rank" -> <<"i", "n", "v", "e", "r", "s", "e", "_", "h", "a", "r", "m", "o", "n", "i", "c", "_", "m", "e", "a", "n", "_", "r", "a", "n", "k">>
      [] w = "inverse_median_rank" -> <<"i", "n", "v", "e", "r", "s", "e", "_", "m", "e", "d", "i", "a", "n", "_", "r", "a", "n", "k">>
      [] w = "adjusted_arithmetic_mean_rank" -> <<"a", "d", "j", "u", "s", "t", "e", "d", "_", "a", "r", "i", "t", "h", "m", "e", "t", "i", "c", "_", "m", "e", "a", "n", "_", "r", "a", "n", "k">>
      [] w = "adjusted_arithmetic_mean_rank_index" -> <<"a", "d", "j", "u", "s", "t", "e", "d", "_", "a", "r", "i", "t", "h", "m", "e", "t", "i", "c", "_", "m", "e", "a", "n", "_", "r", "a", "n", "k", "_", "i", "n", "d", "e", "x">>
      [] w = "rank_std" -> <<"r", "a", "n", "k", "_", "s", "t", "d">>
      [] w = "rank_var" -> <<"r", "a", "n", "k", "_", "v", "a", "r">>
      [] w = "rank_mad" -> <<"r", "a", "n", "k", "_", "m", "a", "d">>
      [] w = "rank_count" -> <<"r", "a", "n", "k", "_", "c", "o", "u", "n", "t">>
      [] w = "adjusted_mean_rank" -> <<"a", "d", "j", "u", "s", "t", "e", "d", "_", "m", "e", "a", "n", "_", "r", "a", "n", "k">>
      [] w = "adjusted_mean_rank_index" -> <<"a", "d", "j", "u", "s", "t", "e", "d", "_", "m", "e", "a", "n", "_", "r", "a", "n", "k", "_", "i", "n", "d", "e", "x">>
      [] w = "amr" -> <<"a", "m", "r">>
      [] w = "aamr" -> <<"a", "a", "m", "r">>
      [] w = "amri" -> <<"a", "m", "r", "i">>
      [] w = "aamri" -> <<"a", "a", "m", "r", "i">>
      [] w = "igmr" -> <<"i", "g", "m", "r">>
      [] w = "iamr" -> <<"i", "a", "m", "r">>
      [] w = "mr" -> <<"m", "r">>
      [] w = "mean_rank" -> <<"m", "e", "a", "n", "_", "r", "a", "n", "k">>
      [] w = "mrr" -> <<"m", "r", "r">>
      [] w = "mean_reciprocal_rank" -> <<"m", "e", "a", "n", "_", "r", "e", "c", "i", "p", "r", "o", "c", "a", "l", "_", "r", "a", "n", "k">>
      [] w = "hits_at_k" -> <<"h", "i", "t", "s", "_", "a", "t", "_", "k">>
      [] w = "hits_at_" -> <<"h", "i", "t", "s", "_", "a", "t", "_">>
      [] w = "hits@" -> <<"h", "i", "t", "s", "@">>
      [] w = "h@" -> <<"h", "@">>
      [] w = "." -> <<".">>
      [] w = "MRR" -> <<"M", "R", "R">>
      [] w = "mean rank" -> <<"m", "e", "a", "n", " ", "r", "a", "n", "k">>
      [] w = "hits@5" -> <<"h", "i", "t", "s", "@", "5">>
      [] w = "hits@0" -> <<"h", "i", "t", "s", "@", "0">>
      [] w = "hits@k" -> <<"h", "i", "t", "s", "@", "k">>
      [] w = "hits@-5" -> <<"h", "i", "t", "s", "@", "-", "5">>
      [] w = "hits@x" -> <<"h", "i", "t", "s", "@", "x">>
      [] w = "h@5" -> <<"h", "@", "5">>
      [] w = "hits_at_5" -> <<"h", "i", "t", "s", "_", "a", "t", "_", "5">>
      [] w = "mean" -> <<"m", "e", "a", "n">>
      [] w = ".both" -> <<".", "b", "o", "t", "h">>
      [] w = ".head" -> <<".", "h", "e", "a", "d">>
      [] w = ".HEAD" -> <<".", "H", "E", "A", "D">>
      [] w = ".realistic" -> <<".", "r", "e", "a", "l", "i", "s", "t", "i", "c">>
      [] w = ".optimistic" -> <<".", "o", "p", "t", "i", "m", "i", "s", "t", "i", "c">>
      [] w = ".avg" -> <<".", "a", "v", "g">>
      [] w = ".0" -> <<".", "0">>
      [] w = ".-5" -> <<".", "-", "5">>
      [] w = ".x" -> <<".", "x">>

Drop(s, n) == SubSeq(s, n + 1, Len(s))

StartsWith(s, lit) == Len(lit) <= Len(s) /\ SubSeq(s, 1, Len(lit)) = lit

LowerCase == <<"a", "b", "c", "d", "e", "f", "g", "h", "i", "j", "k", "l", "m", "n", "o", "p", "q", "r", "s", "t", "u", "v", "w", "x", "y", "z">>

UpperCase == <<"A", "B", "C", "D", "E", "F", "G", "H", "I", "J", "K", "L", "M", "N", "O", "P", "Q", "R", "S", "T", "U", "V", "W", "X", "Y", "Z">>

Digits == <<"0", "1", "2", "3", "4", "5", "6", "7", "8", "9">>

IndexIn(c, alphabet) == CHOOSE i \in 1..Len(alphabet) : alphabet[i] = c

(* \d of a Python str pattern, on the characters the model uses *)
DigitChars == Range(Digits)

(* \w of a Python str pattern, on the characters the model uses *)
WordChars == Range(LowerCase) \cup Range(UpperCase) \cup Range(Digits) \cup {"_"}

(* str.lower() *)
lower(s) ==
    [i \in 1..Len(s) |->
        IF s[i] \in Range(UpperCase) THEN LowerCase[IndexIn(s[i], UpperCase)] ELSE s[i]]

(* str.replace(" ", "_") *)
replace_space(s) == [i \in 1..Len(s) |-> IF s[i] = " " THEN "_" ELSE s[i]]

(* the length of the longest prefix of s made of characters of class: what a
   greedy [class]+ consumes *)
RECURSIVE PrefixLen(_, _)
PrefixLen(s, class) ==
    IF s = <<>> \/ Head(s) \notin class THEN 0 ELSE 1 + PrefixLen(Tail(s), class)

(* int(digits) for a non-empty run of decimal digits *)
RECURSIVE int(_)
int(digits) ==
    IF digits = <<>> THEN 0
    ELSE 10 * int(SubSeq(digits, 1, Len(digits) - 1)) + (IndexIn(digits[Len(digits)], Digits) - 1)

(* str(n) for an int n >= 0 *)
RECURSIVE str(_)
str(n) == IF n < 10 THEN <<Digits[n + 1]>> ELSE Append(str(n \div 10), Digits[(n % 10) + 1])

(* ".".join(components) *)
RECURSIVE join(_)
join(components) ==
    IF Len(components) = 1 THEN components[1]
    ELSE components[1] \o S(".") \o join(Tail(components))

---------------------------------------------------------------------------
(* MetricKey *)

RANK_TYPE_SYNONYMS ==
    [w \in {"best", "worst", "avg", "average"} |->
        CASE w = "best" -> RANK_OPTIMISTIC
          [] w = "worst" -> RANK_PESSIMISTIC
          [] OTHER -> RANK_REALISTIC]

METRIC_SYNONYMS ==
    [w \in {"adjusted_mean_rank", "adjusted_mean_rank_index", "amr", "aamr", "amri", "aamri",
            "igmr", "iamr", "mr", "mean_rank", "mrr", "mean_reciprocal_rank"} |->
        CASE w \in {"adjusted_mean_rank", "amr", "aamr"} -> ADJUSTED_ARITHMETIC_MEAN_RANK
          [] w \in {"adjusted_mean_rank_index", "amri", "aamri"} -> ADJUSTED_ARITHMETIC_MEAN_RANK_INDEX
          [] w = "igmr" -> INVERSE_GEOMETRIC_MEAN_RANK
          [] w = "iamr" -> INVERSE_ARITHMETIC_MEAN_RANK
          [] w \in {"mr", "mean_rank"} -> ARITHMETIC_MEAN_RANK
          [] OTHER -> INVERSE_HARMONIC_MEAN_RANK]

(* the alternatives of _SIDE_PATTERN and _TYPE_PATTERN, in their order *)
_SIDE_PATTERN == SIDES

_TYPE_PATTERN == RANK_TYPES \o <<"best", "worst", "avg", "average">>

(* a group that did not take part in the match *)
NoGroup == <<>>

(* the group captured from the alternatives that match: the first one *)
FirstAlt(hits) == IF hits = <<>> THEN NoGroup ELSE S(hits[1])

(* (\.(?P<g>alt1|alt2|...))? at the start of s: the first alternative that
   matches after a dot, NoGroup if none does *)
OptionalAlt(s, alts) ==
    FirstAlt(SelectSeq(alts, LAMBDA w : StartsWith(s, S(".") \o S(w))))

(* the first digits characters of s, NoGroup if there is none *)
DigitRun(s, digits) == IF digits = 0 THEN NoGroup ELSE SubSeq(s, 1, digits)

(* (\.(?P<k>\d+))? at the start of s *)
OptionalK(s) ==
    IF StartsWith(s, S(".")) THEN DigitRun(Drop(s, 1), PrefixLen(Drop(s, 1), DigitChars))
    ELSE NoGroup

(* the text a matched optional group consumed, dot included *)
Consumed(group) == IF group = NoGroup THEN 0 ELSE 1 + Len(group)

(* the match object once every group is known *)
MatchGroups(s, n, side, type, k) ==
    [matched |-> TRUE, name |-> SubSeq(s, 1, n), side |-> side, type |-> type,
     k |-> k, end |-> n + Consumed(side) + Consumed(type) + Consumed(k)]

(* (\.(?P<k>\d+))? after the type group *)
MatchK(s, n, side, type) ==
    MatchGroups(s, n, side, type, OptionalK(Drop(s, n + Consumed(side) + Consumed(type))))

(* (\.(?P<type>...))? after the side group *)
MatchType(s, n, side) ==
    MatchK(s, n, side, OptionalAlt(Drop(s, n + Consumed(side)), _TYPE_PATTERN))

(* (\.(?P<side>...))? after the n characters of the name; no match at all
   when the name is empty *)
MatchSide(s, n) ==
    IF n = 0 THEN [matched |-> FALSE, name |-> NoGroup, side |-> NoGroup,
                   type |-> NoGroup, k |-> NoGroup, end |-> 0]
    ELSE MatchType(s, n, OptionalAlt(Drop(s, n), _SIDE_PATTERN))

(* METRIC_PATTERN.match(s): re.match anchors at the start only; the name is
   a greedy [\w@]+ and each later group is optional, so no backtracking
   changes the first, greedy attempt *)
METRIC_PATTERN_match(s) == MatchSide(s, PrefixLen(s, WordChars \cup {"@"}))

(* the digits that follow the prefix of a hits alias *)
HitsDigits(name, prefix) ==
    SubSeq(name, Len(prefix) + 1, Len(prefix) + PrefixLen(Drop(name, Len(prefix)), DigitChars))

(* the k group of the first alias that matches *)
FirstHits(name, hits) == IF hits = <<>> THEN NoGroup ELSE HitsDigits(name, S(hits[1]))

(* HITS_PATTERN.match(name): the digits of (hits_at_|hits@|h@)(?P<k>\d+) at
   the start of name, NoGroup if there is no match *)
HITS_PATTERN_match(name) ==
    FirstHits(name, SelectSeq(<<"hits_at_", "hits@", "h@">>,
                              LAMBDA w : /\ StartsWith(name, S(w))
                                         /\ PrefixLen(Drop(name, Len(S(w))), DigitChars) > 0))

MetricKey(name, side, rank_type, k) == [name |-> name, side |-> side, rank_type |-> rank_type, k |-> k]

KeyReturned(op, key, text) == [op |-> op, ok |-> TRUE, error |-> "", key |-> key, text |-> text]

KeyRaised(op, error) ==
    [op |-> op, ok |-> FALSE, error |-> error, key |-> MetricKey(<<>>, <<>>, <<>>, None), text |-> <<>>]

(* the word of the table whose string is chars *)
WordOf(table, chars) == CHOOSE w \in DOMAIN table : S(w) = chars

(* dict.get(chars, chars) on a table keyed by words *)
GetOrSame(table, chars) ==
    IF \E w \in DOMAIN table : S(w) = chars THEN S(table[WordOf(table, chars)]) ELSE chars

(* a resolution of k that leaves a missing k of hits_at_k unset *)
ResolveK_without_default(name, kstr) ==
    IF name = S("hits_at_k") /\ kstr # NoGroup THEN int(kstr) ELSE None

(* the k of the key, from the normalized name and the captured digits (NoGroup
   for None): for hits_at_k a missing k is 10 and the digits are converted,
   and int() of a run of digits never fails and is never negative; any other
   name keeps None *)
ResolveK(name, kstr) ==
    IF name = S("hits_at_k")
    THEN (IF kstr = NoGroup THEN 10 ELSE int(kstr))
    ELSE None

(* lookup from the rank type on: the membership test, the realistic-only
   restriction, the returned key *)
LookupRankType(name, side, rank_type, k) ==
    IF rank_type \notin {S(RANK_TYPES[i]) : i \in DOMAIN RANK_TYPES}
    THEN KeyRaised("lookup", "ValueError")
    ELSE IF /\ rank_type # S(RANK_REALISTIC)
            /\ name \in {S(w) : w \in TYPES_REALISTIC_ONLY}
    THEN KeyRaised("lookup", "ValueError")
    ELSE KeyReturned("lookup", MetricKey(name, side, rank_type, k), <<>>)

(* lookup from the side on: the membership test, then the rank type, which
   defaults to realistic, is lower-cased and goes through the synonyms *)
LookupSide(match, name, side, k) ==
    IF side \notin {S(SIDES[i]) : i \in DOMAIN SIDES}
    THEN KeyRaised("lookup", "ValueError")
    ELSE LookupRankType(name, side,
                        GetOrSame(RANK_TYPE_SYNONYMS,
                                  lower(IF match.type = NoGroup THEN S(RANK_REALISTIC) ELSE match.type)),
                        k)

(* lookup from the k on: name is the name after the hits aliases, kstr the k
   as captured (a string of digits, or NoGroup for None); the assert refuses
   a captured k on any name but hits_at_k; then the name synonyms, and the
   side, which defaults to both and is lower-cased *)
LookupK(match, name, kstr) ==
    IF name # S("hits_at_k") /\ kstr # NoGroup
    THEN KeyRaised("lookup", "AssertionError")
    ELSE LookupSide(match, GetOrSame(METRIC_SYNONYMS, name),
                    lower(IF match.side = NoGroup THEN S(SIDE_BOTH) ELSE match.side),
                    ResolveK(name, kstr))

(* lookup from the hits aliases on: an alias renames to hits_at_k and its
   digits replace the k the specification captured *)
LookupHits(match, name, hits) ==
    IF hits # NoGroup THEN LookupK(match, S("hits_at_k"), hits)
    ELSE LookupK(match, name, match.k)

(* lookup from the name on: lower-cased, spaces replaced *)
LookupName(match, name) == LookupHits(match, name, HITS_PATTERN_match(name))

(* lookup once the pattern has been tried *)
LookupMatch(match) ==
    IF ~match.matched THEN KeyRaised("lookup", "ValueError")
    ELSE LookupName(match, replace_space(lower(match.name)))

(* MetricKey.lookup(s) *)
lookup(s) == LookupMatch(METRIC_PATTERN_match(s))

(* MetricKey.__str__: "if self.k" is false for None and for 0 *)
MetricKey__str__(key) ==
    join(<<key.name, key.side, key.rank_type>>
         \o (IF key.k # None /\ key.k # 0 THEN <<str(key.k)>> ELSE <<>>))

(* str(key) of the key lookup returned; its error otherwise *)
StrOf(r) ==
    IF r.ok THEN KeyReturned("normalize", r.key, MetricKey__str__(r.key))
    ELSE KeyRaised("normalize", r.error)

(* MetricKey.normalize(s) *)
normalize(s) == StrOf(lookup(s))

---------------------------------------------------------------------------
(* The accumulator as a state machine: one instance, calls made one at a time *)

Variants == {"micro", "sampled", "macro"}

EmptyKeys == [t \in Targets |-> <<>>]

(* the number of observations the buffers hold; a call may add rows up to
   MaxObs buffered observations *)
Buffered(rk) == Len(rk[<<LABEL_HEAD, RANK_REALISTIC>>]) + Len(rk[<<LABEL_TAIL, RANK_REALISTIC>>])

InitAcc ==
    /\ variant \in Variants
    /\ ranks = EmptyRanks
    /\ keys = EmptyKeys
    /\ num_entities = IF variant = "sampled" THEN FactoryNumEntities ELSE None
    /\ ret = Returned("__init__", NoResults)
    /\ ingested = FALSE
    /\ finalized = FALSE

Call_RankBased_process_scores_ ==
    /\ variant = "micro"
    /\ \E target \in Targets, c \in Widths, true_scores \in BOOLEAN :
         \E rows \in Batches(Rows(c, BatchTriples(variant)), MaxObs - Buffered(ranks), true_scores) :
           \E nxt \in {RankBased_process_scores_(ranks, num_entities, target, rows, c, true_scores)} :
               /\ ranks' = nxt.ranks
               /\ num_entities' = nxt.num_entities
               /\ ret' = [nxt.ret EXCEPT !.true_scores = true_scores]
               /\ ingested' = (ingested \/ nxt.ret.ok)
    /\ UNCHANGED <<variant, keys, finalized, keyVars, callVars>>

Call_Sampled_process_scores_ ==
    /\ variant = "sampled"
    /\ \E target \in Targets, c \in {FactoryNumEntities, FactoryNumEntities + 1},
          true_scores \in BOOLEAN :
         \E rows \in Batches(Rows(1 + NumNegatives, BatchTriples(variant)), MaxObs - Buffered(ranks), true_scores) :
           \E nxt \in {Sampled_process_scores_(ranks, num_entities, target, rows, c, true_scores)} :
               /\ ranks' = nxt.ranks
               /\ num_entities' = nxt.num_entities
               /\ ret' = [nxt.ret EXCEPT !.true_scores = true_scores,
                                         !.width = IF true_scores THEN c ELSE 0]
               /\ ingested' = (ingested \/ nxt.ret.ok)
    /\ UNCHANGED <<variant, keys, finalized, keyVars, callVars>>

Call_Macro_process_scores_ ==
    /\ variant = "macro"
    /\ \E target \in Targets, c \in Widths, true_scores \in BOOLEAN :
         \E rows \in Batches(Rows(c, BatchTriples(variant)), MaxObs - Buffered(ranks), true_scores) :
           \E nxt \in {Macro_process_scores_(ranks, keys, num_entities, target, rows, c, true_scores)} :
               /\ ranks' = nxt.ranks
               /\ keys' = nxt.keys
               /\ num_entities' = nxt.num_entities
               /\ ret' = [nxt.ret EXCEPT !.true_scores = true_scores, !.target = target, !.rows = rows]
               /\ ingested' = (ingested \/ nxt.ret.ok)
    /\ UNCHANGED <<variant, finalized, keyVars, callVars>>

Call_RankBased_finalize ==
    /\ variant \in {"micro", "sampled"}
    /\ \E nxt \in {RankBased_finalize(ranks, num_entities)} :
           /\ ranks' = nxt.ranks
           /\ num_entities' = nxt.num_entities
           /\ ret' = nxt.ret
           /\ finalized' = (finalized \/ nxt.ret.ok)
    /\ UNCHANGED <<variant, keys, ingested, keyVars, callVars>>

Call_Macro_finalize ==
    /\ variant = "macro"
    /\ \E nxt \in {Macro_finalize(ranks, keys, num_entities)} :
           /\ ranks' = nxt.ranks
           /\ keys' = nxt.keys
           /\ num_entities' = nxt.num_entities
           /\ ret' = nxt.ret
           /\ finalized' = (finalized \/ nxt.ret.ok)
    /\ UNCHANGED <<variant, ingested, keyVars, callVars>>

(* no MetricKey call is under way *)
KeyIdle == [op |-> "", ok |-> TRUE, error |-> "", key |-> MetricKey(<<>>, <<>>, <<>>, None), text |-> <<>>]

---------------------------------------------------------------------------
(* Negative sampling: sample_negatives and the constructor of
   SampledRankBasedEvaluator that calls it. *)

MaxSamples == 3

(* the numbers of evaluation triples of a call *)
EvalLengths == {1, 2}

(* the entity ids and the triples the sampler is run on *)
NegIds == 0..2

NegTriples == {<<h, 0, t>> : h \in {0, 1}, t \in NegIds}

(* prepare_filter_triples: the evaluation triples together with the
   additional filter triples *)
prepare_filter_triples(mapped_triples, additional_filter_triples) ==
    {mapped_triples[i] : i \in DOMAIN mapped_triples} \cup additional_filter_triples

(* num_entities or (max id + 1) *)
InferEntities(all_triples, ne) ==
    IF ne # None THEN ne
    ELSE 1 + CHOOSE m \in NegIds : /\ \E t \in all_triples : m \in {t[1], t[3]}
                                   /\ \A t \in all_triples : t[1] <= m /\ t[3] <= m

(* a pool that keeps the true answers of the group *)
Pool_keeping_answers(all_triples, ne, side, triple) == [i \in 1..ne |-> i - 1]

(* the entities of all_ids that are no true answer on the side for the group
   of the triple, as a list in increasing order *)
Pool(all_triples, ne, side, triple) ==
    LET answers == {t[TARGET_TO_INDEX[side]] : t \in {u \in all_triples : KeyOf(u, side) = KeyOf(triple, side)}}
        rest == (0..(ne - 1)) \ answers
    IN  [i \in 1..Cardinality(rest) |-> CHOOSE x \in rest : Cardinality({y \in rest : y < x}) = i - 1]

(* the pool the rows of a group are drawn from, for a pool that is not
   empty: int(math.ceil(num_samples / len(pool))) * pool when it is smaller
   than num_samples *)
DrawPool(pool, num_samples) ==
    IF Len(pool) < num_samples
    THEN [j \in 1..(((num_samples + Len(pool) - 1) \div Len(pool)) * Len(pool)) |-> pool[((j - 1) % Len(pool)) + 1]]
    ELSE pool

(* draws of k positions with replacement *)
random_sample_with_replacement(population, k) ==
    {[j \in 1..k |-> population[f[j]]] : f \in [1..k -> DOMAIN population]}

(* random.sample(population, k): the draws of k positions without
   replacement *)
random_sample(population, k) ==
    {[j \in 1..k |-> population[f[j]]] :
        f \in {g \in [1..k -> DOMAIN population] : \A a, b \in 1..k : a # b => g[a] # g[b]}}

NegReturned(op, args, warned, negatives) ==
    [op |-> op, args |-> args, ok |-> TRUE, error |-> "", warned |-> warned, negatives |-> negatives]

NegRaised(op, args, error) ==
    [op |-> op, args |-> args, ok |-> FALSE, error |-> error, warned |-> FALSE, negatives |-> <<>>]

(* this_negatives of one side once rows 1..i are written, every group
   having a pool: each row is a draw of its own *)
RECURSIVE SideNegatives(_, _, _, _, _, _)
SideNegatives(evaluation_triples, all_triples, num_samples, ne, side, i) ==
    IF i = 0 THEN {<<>>}
    ELSE {Append(above, row) :
            above \in SideNegatives(evaluation_triples, all_triples, num_samples, ne, side, i - 1),
            row \in random_sample(
                       DrawPool(Pool(all_triples, ne, side, evaluation_triples[i]), num_samples),
                       num_samples)}

(* sample_negatives: the outcomes of one call; an empty pool is below
   num_samples, so the warning is logged and the division by len(pool) fails *)
SampleOutcomes(op, args, all_triples, ne) ==
    IF \E side \in Targets, i \in DOMAIN args.evaluation_triples :
           Len(Pool(all_triples, ne, side, args.evaluation_triples[i])) = 0
    THEN {[NegRaised(op, args, "ZeroDivisionError") EXCEPT !.warned = TRUE]}
    ELSE {NegReturned(op, args,
                      \E side \in Targets, i \in DOMAIN args.evaluation_triples :
                          Len(Pool(all_triples, ne, side, args.evaluation_triples[i])) < args.num_samples,
                      table) :
            table \in {[side \in Targets |-> IF side = LABEL_HEAD THEN hd ELSE tl] :
                         hd \in SideNegatives(args.evaluation_triples, all_triples, args.num_samples, ne,
                                              LABEL_HEAD, Len(args.evaluation_triples)),
                         tl \in SideNegatives(args.evaluation_triples, all_triples, args.num_samples, ne,
                                              LABEL_TAIL, Len(args.evaluation_triples))}}

sample_negatives(op, args) ==
    SampleOutcomes(op, args,
                   prepare_filter_triples(args.evaluation_triples, args.additional_filter_triples),
                   InferEntities(prepare_filter_triples(args.evaluation_triples, args.additional_filter_triples),
                                 args.num_entities))

(* SampledRankBasedEvaluator.__init__ without given negatives: the outcomes *)
Sampled__init__(op, args) ==
    IF args.num_samples > args.num_entities
    THEN {NegRaised(op, args, "ValueError")}
    ELSE sample_negatives(op, args)

---------------------------------------------------------------------------
(* RankBasedMetricResults.get_metric *)

GetReturned(s, value) == [op |-> "get_metric", name |-> s, ok |-> TRUE, error |-> "", value |-> value]

GetRaised(s, error) == [op |-> "get_metric", name |-> s, ok |-> FALSE, error |-> error, value |-> NaN]

(* a read that answers a missing entry with a default value *)
NameLookup_with_default(results, s, pr, name) ==
    IF \E w \in RegistryNames \cup TYPES_REALISTIC_ONLY : S(w) = name /\ HasEntry(results, w, pr)
    THEN GetReturned(s, results.asr[pr][CHOOSE w \in RegistryNames \cup TYPES_REALISTIC_ONLY : S(w) = name])
    ELSE GetReturned(s, NaN)

(* self.data[metric_key.name][metric_key.side][metric_key.rank_type] *)
NameLookup(results, s, pr, name) ==
    IF \E w \in RegistryNames \cup TYPES_REALISTIC_ONLY : S(w) = name /\ HasEntry(results, w, pr)
    THEN GetReturned(s, results.asr[pr][CHOOSE w \in RegistryNames \cup TYPES_REALISTIC_ONLY : S(w) = name])
    ELSE GetRaised(s, "KeyError")

(* _get_metric for a key lookup returned, whose side and rank type are among
   SIDES and RANK_TYPES; pr is (side, rank type) *)
_get_metric(results, s, key, pr) ==
    IF ~StartsWith(key.name, <<"h", "i", "t", "s">>) THEN NameLookup(results, s, pr, key.name)
    ELSE IF key.k = None THEN GetRaised(s, "AssertionError")
    ELSE IF pr \in DOMAIN results.hits_at_k /\ \E j \in DOMAIN ks : ks[j] = IntK(key.k)
    THEN GetReturned(s, results.hits_at_k[pr][CHOOSE j \in DOMAIN ks : ks[j] = IntK(key.k)])
    ELSE GetRaised(s, "KeyError")

(* self._get_metric(MetricKey.lookup(name)), r being what lookup made of the
   name *)
GetAfterLookup(results, s, r) ==
    IF ~r.ok THEN GetRaised(s, r.error)
    ELSE _get_metric(results, s, r.key,
                     <<CHOOSE w \in Range(SIDES) : S(w) = r.key.side,
                       CHOOSE w \in Range(RANK_TYPES) : S(w) = r.key.rank_type>>)

get_metric(results, s) == GetAfterLookup(results, s, lookup(s))

(* no sampling call has been made *)
NegIdle == NegReturned("", <<>>, FALSE, <<>>)

(* no get_metric call has been made *)
GetIdle == [op |-> "", name |-> <<>>, ok |-> TRUE, error |-> "", value |-> NaN]

(* no statistic has been called *)
StatIdle == [op |-> ""]

(* no unsynchronized caller is at work *)
RaceIdle == <<>>

vars == <<variant, ranks, keys, num_entities, ret, ingested, finalized, spec, kret, neg, gret, stat, race>>

Init ==
    /\ InitAcc
    /\ spec = <<>>
    /\ kret = KeyIdle
    /\ neg = NegIdle
    /\ gret = GetIdle
    /\ stat = StatIdle
    /\ race = RaceIdle

Next ==
    \/ Call_RankBased_process_scores_
    \/ Call_Sampled_process_scores_
    \/ Call_Macro_process_scores_
    \/ Call_RankBased_finalize
    \/ Call_Macro_finalize

Spec == Init /\ [][Next]_vars

---------------------------------------------------------------------------
(* Properties of the accumulators, checked under Spec.  A step that ends
   with ret'.op = "finalize" is a finalize call on the buffers of its first
   state; one that ends with ret'.op = "process_scores_" is an ingest. *)

(* the buffer of a (side, rank type) pair at finalize time: that of the side,
   the side "both" being the head observations followed by the tail ones *)
BufferOf(rk, pr) ==
    IF pr[1] = "both" THEN rk[<<"head", pr[2]>>] \o rk[<<"tail", pr[2]>>] ELSE rk[pr]

(* the pair's buffer holds at least one observation; for "both", the head
   buffer or the tail buffer does *)
NonEmpty(rk, pr) ==
    IF pr[1] = "both"
    THEN Len(rk[<<"head", pr[2]>>]) > 0 \/ Len(rk[<<"tail", pr[2]>>]) > 0
    ELSE Len(rk[pr]) > 0

AllPairs == {"head", "tail", "both"} \X {"optimistic", "realistic", "pessimistic"}

(* C2: after finalize returns successfully every rank buffer (and, for the
   macro variant, every key buffer) is empty, on every variant. *)
C2_BuffersEmptyAfterFinalize ==
    (ret.op = "finalize" /\ ret.ok) => (ranks = EmptyRanks /\ keys = EmptyKeys)

(* C3 as stated: on each variant, finalize on an instance that has ingested no
   batch fails. *)
C3_FinalizeWithoutBatchFails ==
    (~ingested /\ ret.op = "finalize") => ~ret.ok

(* C3: finalize on an instance that has ingested no batch fails with the
   state error on the micro and macro variants and writes no metric; on the
   sampled variant, whose constructor records the candidate count, it
   returns results that hold no entry. *)
C3_FinalizeWithoutBatch ==
    (~ingested /\ ret.op = "finalize") =>
        /\ ret.results = NoResults
        /\ IF variant \in {"micro", "macro"}
           THEN ~ret.ok /\ ret.error = "ValueError"
           ELSE ret.ok

(* the sampled accumulator has returned from finalize without any batch *)
C3_Witness ==
    ~ingested /\ ret.op = "finalize" /\ ret.ok /\ variant = "sampled"

C5_EntriesIffObservations ==
    [][(ret'.op = "finalize" /\ ret'.ok) =>
          \A pr \in AllPairs :
              /\ (pr \in DOMAIN ret'.results.hits_at_k) <=> NonEmpty(ranks, pr)
              /\ \A name \in RegistryNames :
                    HasEntry(ret'.results, name, pr) <=> NonEmpty(ranks, pr)]_vars

(* a macro finalize has returned entries for the head side and for both
   sides, and none for the tail side, which had no observation *)
C5_Witness ==
    /\ ret.op = "finalize" /\ ret.ok /\ variant = "macro"
    /\ HasEntry(ret.results, "median_rank", <<"head", "realistic">>)
    /\ <<"both", "optimistic">> \in DOMAIN ret.results.hits_at_k
    /\ <<"tail", "realistic">> \notin DOMAIN ret.results.hits_at_k
    /\ ~HasEntry(ret.results, "rank_count", <<"tail", "pessimistic">>)

(* the largest integer not above ne * n / d *)
FloorOfProduct(ne, n, d) ==
    CHOOSE t \in 0..(ne * n) : t * d <= ne * n /\ (t + 1) * d > ne * n

(* the number of ranks of x that are at most thr *)
CountAtMost(x, thr) == Cardinality({i \in 1..Len(x) : RLeq(x[i], RInt(thr))})

(* C6: in the micro finalize, hits_at_k for a pair and a k is the number of
   ranks of the pair's buffer that are at most threshold(k), divided by the
   number of ranks; the threshold of an integer k is k, that of a fractional
   k is the floor of the recorded candidate count times k. *)
C6_HitsAtK ==
    [][(ret'.op = "finalize" /\ ret'.ok /\ variant \in {"micro", "sampled"}) =>
          \A pr \in DOMAIN ret'.results.hits_at_k : \A j \in 1..Len(ks) :
              LET x == BufferOf(ranks, pr)
                  thr == IF ks[j].isint THEN ks[j].q[1]
                         ELSE FloorOfProduct(num_entities, ks[j].q[1], ks[j].q[2])
              IN  ret'.results.hits_at_k[pr][j] = Exact(Rat(CountAtMost(x, thr), Len(x)))]_vars

(* a micro finalize over two candidates has returned a hit rate of one half
   for the fractional k, whose threshold is floor(2 * 0.5) = 1 *)
C6_Witness ==
    /\ ret.op = "finalize" /\ ret.ok /\ variant = "micro"
    /\ num_entities = 2
    /\ <<"head", "realistic">> \in DOMAIN ret.results.hits_at_k
    /\ ret.results.hits_at_k[<<"head", "realistic">>][3] = Exact(Rat(1, 2))
    /\ ret.results.hits_at_k[<<"head", "realistic">>][2] = Exact(Rat(1, 1))

(* C7: an ingest without true scores fails, on every variant, and leaves the
   rank buffers, the key buffers and the recorded candidate count unchanged. *)
C7_IngestWithoutTrueScores ==
    [][(ret'.op = "process_scores_" /\ ~ret'.true_scores) =>
          /\ ~ret'.ok
          /\ ranks' = ranks
          /\ keys' = keys
          /\ num_entities' = num_entities]_vars

(* an ingest without true scores has failed on a macro accumulator that
   holds observations *)
C7_Witness ==
    /\ ret.op = "process_scores_" /\ ~ret.true_scores /\ ~ret.ok
    /\ variant = "macro"
    /\ Buffered(ranks) > 0
    /\ keys # EmptyKeys

(* C8: the micro finalize writes the adjusted metrics for a (side, rank type)
   pair only when the rank type is realistic, and then exactly when the
   realistic buffer and the expected-realistic buffer of the side are both
   non-empty. *)
C8_AdjustedOnlyRealistic ==
    [][(ret'.op = "finalize" /\ ret'.ok /\ variant \in {"micro", "sampled"}) =>
          \A pr \in AllPairs :
              \A name \in {"adjusted_arithmetic_mean_rank", "adjusted_arithmetic_mean_rank_index"} :
                  HasEntry(ret'.results, name, pr) <=>
                      /\ pr[2] = "realistic"
                      /\ NonEmpty(ranks, pr)
                      /\ NonEmpty(ranks, <<pr[1], "expected_realistic">>)]_vars

(* a micro finalize has written the adjusted metrics for the realistic ranks
   of the tail side and of both sides, and not for the head side, whose
   buffers were empty *)
C8_Witness ==
    /\ ret.op = "finalize" /\ ret.ok /\ variant = "micro"
    /\ HasEntry(ret.results, "adjusted_arithmetic_mean_rank", <<"tail", "realistic">>)
    /\ HasEntry(ret.results, "adjusted_arithmetic_mean_rank_index", <<"both", "realistic">>)
    /\ ~HasEntry(ret.results, "adjusted_arithmetic_mean_rank", <<"head", "realistic">>)
    /\ <<"tail", "optimistic">> \in DOMAIN ret.results.hits_at_k

(* the arithmetic mean of a non-empty sequence of rationals *)
MeanOf(x) == RDiv(RSum(x), RInt(Len(x)))

(* C9: the adjusted mean rank of a pair is the mean of its realistic ranks
   divided by the mean of its expected-realistic ranks, and the adjusted mean
   rank index is 1 - (mean realistic - 1) / (mean expected - 1). *)
C9_AdjustedValues ==
    [][(ret'.op = "finalize" /\ ret'.ok /\ variant \in {"micro", "sampled"}) =>
          \A pr \in DOMAIN ret'.results.asr :
              LET real == MeanOf(BufferOf(ranks, pr))
                  expected == MeanOf(BufferOf(ranks, <<pr[1], "expected_realistic">>))
                  written == ret'.results.asr[pr]
              IN  /\ "adjusted_arithmetic_mean_rank" \in DOMAIN written =>
                        written["adjusted_arithmetic_mean_rank"] = Exact(RDiv(real, expected))
                  /\ "adjusted_arithmetic_mean_rank_index" \in DOMAIN written =>
                        written["adjusted_arithmetic_mean_rank_index"] =
                            Exact(RSub(RInt(1), RDiv(RSub(real, RInt(1)), RSub(expected, RInt(1)))))]_vars

(* a micro finalize has written, for realistic ranks of mean 2 against
   expected ranks of mean 3/2, the adjusted mean rank 4/3 and the index -1 *)
C9_Witness ==
    /\ ret.op = "finalize" /\ ret.ok /\ variant = "micro"
    /\ HasEntry(ret.results, "adjusted_arithmetic_mean_rank", <<"head", "realistic">>)
    /\ ret.results.asr[<<"head", "realistic">>]["adjusted_arithmetic_mean_rank"] = Exact(Rat(4, 3))
    /\ ret.results.asr[<<"head", "realistic">>]["adjusted_arithmetic_mean_rank_index"] = Exact(Rat(-1, 1))

---------------------------------------------------------------------------
(* The metric-key grammar: a specification string is looked up, or normalized
   and the normalized string taken as the next specification *)

(* the most components a specification has after its name *)
MaxSuffix == 2

NameParts ==
    {"mrr", "MRR", "mean_rank", "mean rank", "amri", "hits_at_k", "hits@5", "hits@0",
     "hits@k", "hits@-5", "hits@x", "hits_at_5", "h@5", "."}

SuffixParts == {".both", ".head", ".HEAD", ".realistic", ".optimistic", ".avg", ".0", ".-5", ".x"}

RECURSIVE ConcatAll(_)
ConcatAll(parts) == IF parts = <<>> THEN <<>> ELSE S(Head(parts)) \o ConcatAll(Tail(parts))

(* the specification strings fed to lookup and normalize *)
Specs ==
    {S(n) \o ConcatAll(sfx) : n \in NameParts, sfx \in UNION {[1..m -> SuffixParts] : m \in 0..MaxSuffix}}

InitKey ==
    /\ spec \in Specs
    /\ kret = KeyIdle
    /\ variant = "micro"
    /\ ranks = EmptyRanks
    /\ keys = EmptyKeys
    /\ num_entities = None
    /\ ret = Returned("__init__", NoResults)
    /\ ingested = FALSE
    /\ finalized = FALSE
    /\ neg = NegIdle
    /\ gret = GetIdle
    /\ stat = StatIdle
    /\ race = RaceIdle

Call_lookup ==
    /\ kret' = lookup(spec)
    /\ UNCHANGED <<spec, accVars, callVars>>

Call_normalize ==
    /\ \E r \in {normalize(spec)} :
         /\ kret' = r
         /\ spec' = IF r.ok THEN r.text ELSE spec
    /\ UNCHANGED <<accVars, callVars>>

NextKey ==
    \/ Call_lookup
    \/ Call_normalize

SpecKey == InitKey /\ [][NextKey]_vars

---------------------------------------------------------------------------
(* The sampling calls. *)

(* the arguments of a sampling call: evaluation triples, at most one
   additional filter triple, the number of samples and the number of
   entities, which covers every id when it is given *)
NegArgs ==
    {a \in [evaluation_triples : UNION {[1..m -> NegTriples] : m \in EvalLengths},
            additional_filter_triples : {{}} \cup {{t} : t \in NegTriples},
            num_samples : 1..MaxSamples,
            num_entities : {None} \cup {n + 1 : n \in NegIds}] :
        a.num_entities # None =>
            \A t \in prepare_filter_triples(a.evaluation_triples, a.additional_filter_triples) :
                t[1] < a.num_entities /\ t[3] < a.num_entities}

InitNeg ==
    /\ neg = NegIdle
    /\ gret = GetIdle
    /\ stat = StatIdle
    /\ race = RaceIdle
    /\ spec = <<>>
    /\ kret = KeyIdle
    /\ variant = "sampled"
    /\ ranks = EmptyRanks
    /\ keys = EmptyKeys
    /\ num_entities = None
    /\ ret = Returned("__init__", NoResults)
    /\ ingested = FALSE
    /\ finalized = FALSE

(* a behaviour follows one sampling call *)
Call_sample_negatives ==
    /\ neg = NegIdle
    /\ \E a \in NegArgs : neg' \in sample_negatives("sample_negatives", a)
    /\ UNCHANGED <<accVars, keyVars, gret, stat, race>>

Call_Sampled__init__ ==
    /\ neg = NegIdle
    /\ \E a \in NegArgs :
        /\ a.num_entities # None
        /\ neg' \in Sampled__init__("__init__", a)
        /\ variant' = "sampled"
        /\ ranks' = EmptyRanks
        /\ keys' = EmptyKeys
        /\ num_entities' = IF neg'.ok THEN a.num_entities ELSE None
        /\ ret' = IF neg'.ok THEN Returned("__init__", NoResults) ELSE Raised("__init__", neg'.error)
        /\ ingested' = FALSE
        /\ finalized' = FALSE
    /\ UNCHANGED <<keyVars, gret, stat, race>>

NextNeg == Call_sample_negatives \/ Call_Sampled__init__

SpecNeg == InitNeg /\ [][NextNeg]_vars

---------------------------------------------------------------------------
(* Queries of the results a finalize returned. *)

(* the names asked of get_metric *)
GetNames ==
    {S("both") \o S(".realistic") \o S(".") \o S("mean_rank"),
     S("mean_rank"),
     S("adjusted_mean_rank_index"),
     S("median_rank"),
     S("mean_rank") \o S(".head") \o S(".optimistic"),
     S("rank_count") \o S(".") \o S("tail"),
     S("amri") \o S(".optimistic"),
     S("hits@k"),
     S("hits@5"),
     S("hits_at_k"),
     S("hits@") \o str(3),
     S("hits@") \o str(1) \o S(".") \o S("tail"),
     S("hits_at_k") \o S(".head") \o S(".optimistic") \o S(".") \o str(3)}

(* get_metric on the results the last call, a finalize, returned; a
   behaviour follows one query *)
Call_get_metric ==
    /\ gret = GetIdle
    /\ ret.op = "finalize"
    /\ ret.ok
    /\ \E s \in GetNames : gret' = get_metric(ret.results, s)
    /\ UNCHANGED <<accVars, keyVars, neg, stat, race>>

(* the accumulator is driven until its results are queried *)
NextGet == (gret = GetIdle /\ Next) \/ Call_get_metric

SpecGet == Init /\ [][NextGet]_vars

---------------------------------------------------------------------------
(* The statistics of finalize, each called on its own: the weights of the
   macro finalize, weighted_median, and the micro finalize after the same two
   batches in either order. *)

MaxSample == 3

(* the triples whose keys are weighted: the first has the same pair of ids as
   its (relation, tail) key and as its (head, relation) key *)
StatTriples == {<<0, 0, 0>>, <<0, 0, 1>>, <<1, 0, 0>>}

(* the lists of at most MaxSample elements of a set *)
StatLists(elements) == UNION {[1..m -> elements] : m \in 0..MaxSample}

(* self.keys after the rows of hrt were ingested per side *)
KeysOf(hrt) == [t \in Targets |-> [i \in 1..Len(hrt[t]) |-> KeyOf(hrt[t][i], t)]]

(* the weights finalize computes for each side from the keys *)
MacroWeights(hrt) ==
    [op |-> "weights", hrt |-> hrt,
     weights |-> [side \in Range(SIDES) |-> Weights(_get_keys(KeysOf(hrt), side))]]

(* weighted_median(a, weights): its value, or the IndexError of s_ranks[idx] *)
MedianOutcome(a, weights) ==
    IF weighted_median_raises(a, weights)
    THEN [op |-> "weighted_median", a |-> a, weights |-> weights, ok |-> FALSE, error |-> "IndexError",
          value |-> RInt(0)]
    ELSE [op |-> "weighted_median", a |-> a, weights |-> weights, ok |-> TRUE, error |-> "",
          value |-> weighted_median(a, weights)]

(* a batch of one row for the micro accumulator *)
StatBatches ==
    {b \in [target : Targets, c : Widths, row : [hrt : {<<0, 0, 0>>}, o : 1..2, p : 1..2]] :
        b.row.o <= b.row.p /\ b.row.p <= b.c}

(* the outcome of finalize on a fresh micro accumulator after batch one, then
   batch two *)
FinalizeAfter(one, two) ==
    RankBased_finalize(
        RankBased_process_scores_(
            RankBased_process_scores_(EmptyRanks, None, one.target, <<one.row>>, one.c, TRUE).ranks,
            one.c, two.target, <<two.row>>, two.c, TRUE).ranks,
        two.c).ret

InitStat ==
    /\ stat = StatIdle
    /\ race = RaceIdle
    /\ neg = NegIdle
    /\ gret = GetIdle
    /\ spec = <<>>
    /\ kret = KeyIdle
    /\ variant = "macro"
    /\ ranks = EmptyRanks
    /\ keys = EmptyKeys
    /\ num_entities = None
    /\ ret = Returned("__init__", NoResults)
    /\ ingested = FALSE
    /\ finalized = FALSE

(* a behaviour follows one call *)
Call_MacroWeights ==
    /\ stat = StatIdle
    /\ \E hrt \in [Targets -> StatLists(StatTriples)] : stat' = MacroWeights(hrt)
    /\ UNCHANGED <<accVars, keyVars, neg, gret, race>>

Call_weighted_median ==
    /\ stat = StatIdle
    /\ \E n \in 1..MaxSample :
         \E a \in [1..n -> {RInt(v) : v \in 1..3}], weights \in [1..n -> {<<1, d>> : d \in 1..3}] :
             stat' = MedianOutcome(a, weights)
    /\ UNCHANGED <<accVars, keyVars, neg, gret, race>>

Call_finalize_after_both_orders ==
    /\ stat = StatIdle
    /\ \E one \in StatBatches, two \in StatBatches :
         stat' = [op |-> "orders", one |-> one, two |-> two,
                  first |-> FinalizeAfter(one, two), second |-> FinalizeAfter(two, one)]
    /\ UNCHANGED <<accVars, keyVars, neg, gret, race>>

NextStat == Call_MacroWeights \/ Call_weighted_median \/ Call_finalize_after_both_orders

SpecStat == InitStat /\ [][NextStat]_vars

---------------------------------------------------------------------------
(* Unsynchronized callers of one macro accumulator.  process_scores_ of the
   macro accumulator is two statements, the superclass call that appends the
   ranks and the extend of the key buffer, and nothing in the class keeps
   another caller from running between them.  Callers 1 and 2 each ingest one
   batch of one example of their own; caller 0 calls finalize. *)

RaceCallers == {1, 2}

(* the example a caller ingests: the two differ in their ranks and in their
   grouping key on either side *)
RaceRow(i) ==
    IF i = 1 THEN [hrt |-> <<0, 0, 0>>, o |-> 1, p |-> 1]
    ELSE [hrt |-> <<1, 0, 1>>, o |-> 2, p |-> 2]

(* where a caller stands: "idle" before its call, "super_returned" between
   the two statements of process_scores_, "done" after its call *)
RaceAt(pc, target, rows) == [pc |-> pc, target |-> target, rows |-> rows]

InitRace ==
    /\ race = [i \in RaceCallers \cup {0} |-> RaceAt("idle", LABEL_HEAD, <<>>)]
    /\ stat = StatIdle
    /\ neg = NegIdle
    /\ gret = GetIdle
    /\ spec = <<>>
    /\ kret = KeyIdle
    /\ variant = "macro"
    /\ ranks = EmptyRanks
    /\ keys = EmptyKeys
    /\ num_entities = None
    /\ ret = Returned("__init__", NoResults)
    /\ ingested = FALSE
    /\ finalized = FALSE

(* the first statement of a caller's process_scores_: super().process_scores_;
   its exception ends the call *)
Step_super_process_scores_ ==
    \E i \in RaceCallers, target \in Targets, true_scores \in BOOLEAN :
        /\ race[i].pc = "idle"
        /\ \E sup \in {RankBased_process_scores_(ranks, num_entities, target, <<RaceRow(i)>>,
                                                 RaceRow(i).p, true_scores)} :
               /\ ranks' = sup.ranks
               /\ num_entities' = sup.num_entities
               /\ ret' = IF sup.ret.ok THEN ret
                         ELSE [sup.ret EXCEPT !.true_scores = true_scores, !.target = target]
               /\ race' = [race EXCEPT ![i] = RaceAt(IF sup.ret.ok THEN "super_returned" ELSE "done",
                                                     target, <<RaceRow(i)>>)]
        /\ UNCHANGED <<variant, keys, ingested, finalized, keyVars, neg, gret, stat>>

(* the second statement of a caller's process_scores_, after which it returns *)
Step_keys_extend ==
    \E i \in RaceCallers :
        /\ race[i].pc = "super_returned"
        /\ keys' = Macro_extend_keys(keys, race[i].target, race[i].rows)
        /\ ret' = [Returned("process_scores_", NoResults)
                     EXCEPT !.true_scores = TRUE, !.target = race[i].target, !.rows = race[i].rows]
        /\ ingested' = TRUE
        /\ race' = [race EXCEPT ![i].pc = "done"]
        /\ UNCHANGED <<variant, ranks, num_entities, finalized, keyVars, neg, gret, stat>>

(* finalize, called once at any moment *)
Step_finalize ==
    /\ race[0].pc = "idle"
    /\ \E nxt \in {Macro_finalize(ranks, keys, num_entities)} :
           /\ ranks' = nxt.ranks
           /\ keys' = nxt.keys
           /\ num_entities' = nxt.num_entities
           /\ ret' = nxt.ret
           /\ finalized' = (finalized \/ nxt.ret.ok)
    /\ race' = [race EXCEPT ![0].pc = "done"]
    /\ UNCHANGED <<variant, ingested, keyVars, neg, gret, stat>>

NextRace == Step_super_process_scores_ \/ Step_keys_extend \/ Step_finalize

SpecRace == InitRace /\ [][NextRace]_vars

---------------------------------------------------------------------------
(* Properties of the metric-key grammar, checked under SpecKey *)

(* C1: normalize is idempotent: normalizing a string that normalize returned
   returns that same string, for every non-negative k. *)
C1_NormalizeIdempotent ==
    [][(kret.op = "normalize" /\ kret.ok /\ kret'.op = "normalize")
          => (kret'.ok /\ kret'.text = kret.text)]_vars

(* C10: every key lookup returns has k set exactly when its name is
   hits_at_k, a side among head, tail and both, and a rank type among
   optimistic, realistic and pessimistic. *)
C10_KeyInvariants ==
    (kret.op = "lookup" /\ kret.ok) =>
        /\ (kret.key.k # None) <=> (kret.key.name = S("hits_at_k"))
        /\ kret.key.side \in {S("head"), S("tail"), S("both")}
        /\ kret.key.rank_type \in {S("optimistic"), S("realistic"), S("pessimistic")}

(* lookup has returned a hits_at_k key that carries the default k, for a
   specification that names a side and a rank type but no k *)
C10_Witness ==
    /\ kret.op = "lookup" /\ kret.ok
    /\ kret.key.name = S("hits_at_k")
    /\ kret.key.k = 10
    /\ spec = S("hits_at_k") \o S(".head") \o S(".optimistic")

(* the k the specification carries as its trailing component, the digits an
   alias carries in its name, NoGroup where there is none *)
TrailingK(s) == METRIC_PATTERN_match(s).k

AliasK(s) == HITS_PATTERN_match(replace_space(lower(METRIC_PATTERN_match(s).name)))

(* C11: for a hits-at-k specification lookup rewrites the name to hits_at_k
   and resolves k as the trailing .k component if there is one, otherwise the
   k of the alias, otherwise 10. *)
C11_KResolution ==
    (kret.op = "lookup" /\ kret.ok /\ kret.key.name = S("hits_at_k")) =>
        kret.key.k = IF TrailingK(spec) # NoGroup THEN int(TrailingK(spec))
                     ELSE IF AliasK(spec) # NoGroup THEN int(AliasK(spec))
                     ELSE 10

(* the strings that are, in their entirety, name[.side][.rank_type][.k]: a
   non-empty run of word and @ characters, then optionally a side, a rank type
   or synonym, and a run of digits, each after a dot *)
SideOptions == {<<>>} \cup {S(".") \o S(w) : w \in {"head", "tail", "both"}}

TypeOptions ==
    {<<>>} \cup {S(".") \o S(w) : w \in {"optimistic", "realistic", "pessimistic",
                                          "best", "worst", "avg", "average"}}

IsKOption(r) ==
    r = <<>> \/ (Len(r) >= 2 /\ r[1] = "." /\ PrefixLen(Drop(r, 1), DigitChars) = Len(r) - 1)

WellFormedRest(rest) ==
    \E a \in SideOptions, b \in TypeOptions :
        StartsWith(rest, a \o b) /\ IsKOption(Drop(rest, Len(a \o b)))

WellFormed(s) ==
    /\ PrefixLen(s, WordChars \cup {"@"}) > 0
    /\ WellFormedRest(Drop(s, PrefixLen(s, WordChars \cup {"@"})))

(* C12: lookup fails with the invalid-specification error for every string
   that is not, in its entirety, of the form name[.side][.rank_type][.k]. *)
C12_MalformedRejected ==
    (kret.op = "lookup" /\ ~WellFormed(spec)) => (~kret.ok /\ kret.error = "ValueError")

(* hits-at-k specifications whose k is negative or not a number, inside the
   alias or as the trailing component *)
InvalidKSpecs ==
    {S("hits@-5"), S("hits@x"), S("hits@-5") \o S(".head"), S("hits@x") \o S(".both") \o S(".realistic"),
     S("hits_at_k") \o S(".-5"), S("hits_at_k") \o S(".both") \o S(".-5"),
     S("hits_at_k") \o S(".both") \o S(".realistic") \o S(".-5")}

(* C13: lookup fails with the invalid-k error whenever the k given for a
   hits-at-k metric is negative or non-numeric; it never returns a key. *)
C13_InvalidKRejected ==
    (kret.op = "lookup" /\ spec \in InvalidKSpecs) => (~kret.ok /\ kret.error = "ValueError")

(* C14: lookup is case-insensitive and folds spaces to underscores: a
   specification whose lower-cased, space-folded form is valid gets the key
   of that form. *)
C14_CaseAndSpaceInsensitive ==
    (kret.op = "lookup" /\ WellFormed(replace_space(lower(spec)))
                        /\ lookup(replace_space(lower(spec))).ok) =>
        (kret.ok /\ kret.key = lookup(replace_space(lower(spec))).key)

---------------------------------------------------------------------------
(* Claims on negative sampling, checked under SpecNeg. *)

(* the known triples and the entity count of the call logged in neg *)
NegUniverse == prepare_filter_triples(neg.args.evaluation_triples, neg.args.additional_filter_triples)

NegEntityCount == InferEntities(NegUniverse, neg.args.num_entities)

(* the pool of row i on the side in the call logged in neg *)
NegPool(side, i) == Pool(NegUniverse, NegEntityCount, side, neg.args.evaluation_triples[i])

(* C15: every entry of row i of a returned table is an entity id below
   num_entities that is no true answer for the grouping key of evaluation
   triple i among the evaluation and filter triples, so the true entity of
   triple i is not in its own row; every evaluation triple has a row of
   num_samples entries. *)
C15_NegativesAreTrueNegatives ==
    (neg.op # "" /\ neg.ok) =>
        \A side \in Targets :
            /\ Len(neg.negatives[side]) = Len(neg.args.evaluation_triples)
            /\ \A i \in DOMAIN neg.args.evaluation_triples :
                /\ Len(neg.negatives[side][i]) = neg.args.num_samples
                /\ \A j \in 1..neg.args.num_samples :
                    /\ neg.negatives[side][i][j] \in 0..(NegEntityCount - 1)
                    /\ neg.negatives[side][i][j] # neg.args.evaluation_triples[i][TARGET_TO_INDEX[side]]
                    /\ ~\E t \in NegUniverse :
                          /\ KeyOf(t, side) = KeyOf(neg.args.evaluation_triples[i], side)
                          /\ t[TARGET_TO_INDEX[side]] = neg.negatives[side][i][j]

(* a direct call returned a table for two evaluation triples and a filter
   triple, with a tiled pool *)
C15_Witness ==
    /\ neg.op = "sample_negatives"
    /\ neg.ok
    /\ neg.warned
    /\ Len(neg.args.evaluation_triples) = 2
    /\ neg.args.additional_filter_triples # {}
    /\ neg.args.num_samples = 2

(* C16: whenever the pool of a group is smaller than num_samples, whatever
   its size, sample_negatives warns and returns tables with a row of
   num_samples entries for every evaluation triple. *)
C16_SmallPoolRecovered ==
    (/\ neg.op = "sample_negatives"
     /\ \E side \in Targets, i \in DOMAIN neg.args.evaluation_triples :
            Len(NegPool(side, i)) < neg.args.num_samples) =>
        /\ neg.ok
        /\ neg.warned
        /\ \A side \in Targets, i \in DOMAIN neg.args.evaluation_triples :
               Len(neg.negatives[side][i]) = neg.args.num_samples

(* C17: a request for more samples than there are entities fails and leaves
   no table, in the constructor of the sampled evaluator and in a direct call
   of sample_negatives alike (the kind of the error is left open here). *)
C17_TooManySamplesRejected ==
    (neg.op # "" /\ neg.args.num_samples > NegEntityCount) =>
        (~neg.ok /\ neg.negatives = <<>>)

---------------------------------------------------------------------------
(* Claims on get_metric, checked under SpecGet.  A get_metric step leaves ret
   alone, so ret.results are the results that were queried. *)

(* the (side, rank type) pair of a key lookup returned *)
PairOfKey(key) ==
    <<CHOOSE w \in Range(SIDES) : S(w) = key.side, CHOOSE w \in Range(RANK_TYPES) : S(w) = key.rank_type>>

(* the metric names results can hold, other than hits_at_k *)
StoredNames == RegistryNames \cup TYPES_REALISTIC_ONLY

(* whether the results hold a value for the key *)
Computed(results, key) ==
    IF key.name = S("hits_at_k")
    THEN PairOfKey(key) \in DOMAIN results.hits_at_k /\ \E j \in DOMAIN ks : ks[j] = IntK(key.k)
    ELSE \E w \in StoredNames : S(w) = key.name /\ HasEntry(results, w, PairOfKey(key))

(* the value the results hold for a key they have one for *)
StoredValue(results, key) ==
    IF key.name = S("hits_at_k")
    THEN results.hits_at_k[PairOfKey(key)][CHOOSE j \in DOMAIN ks : ks[j] = IntK(key.k)]
    ELSE results.asr[PairOfKey(key)][CHOOSE w \in StoredNames : S(w) = key.name]

(* what the claims expect of a query whose name stands for the key *)
AnswersKey(key) ==
    IF Computed(ret.results, key)
    THEN gret.ok /\ gret.value = StoredValue(ret.results, key)
    ELSE ~gret.ok

(* C18: get_metric(name) returns the value the results hold under the key
   lookup(name) yields, and fails, with no default value, when lookup fails
   or the results hold nothing for that metric, side, rank type and k. *)
C18_GetMetricReadsStoredValue ==
    (gret.op = "get_metric") =>
        IF lookup(gret.name).ok THEN AnswersKey(lookup(gret.name).key) ELSE ~gret.ok

(* hits at 1 of the tail side was read from results that hold it, and the
   same results hold nothing for the default k *)
C18_Witness ==
    /\ gret.op = "get_metric"
    /\ gret.ok
    /\ gret.name = S("hits@") \o str(1) \o S(".") \o S("tail")
    /\ gret.value = Exact(RInt(1))
    /\ ~Computed(ret.results, MetricKey(S("hits_at_k"), S("both"), S("realistic"), 10))

(* C19: get_metric answers 'both.realistic.mean_rank' and the bare name
   'mean_rank' with the arithmetic mean rank of side both and rank type
   realistic, 'hits@k' with hits at k = 10 and 'hits@5' with hits at k = 5,
   each of side both and rank type realistic. *)
C19_DocstringForms ==
    (gret.op = "get_metric") =>
        /\ gret.name \in {S("both") \o S(".realistic") \o S(".") \o S("mean_rank"), S("mean_rank")} =>
               AnswersKey(MetricKey(S("arithmetic_mean_rank"), S("both"), S("realistic"), None))
        /\ gret.name = S("hits@k") =>
               AnswersKey(MetricKey(S("hits_at_k"), S("both"), S("realistic"), 10))
        /\ gret.name = S("hits@5") =>
               AnswersKey(MetricKey(S("hits_at_k"), S("both"), S("realistic"), 5))

---------------------------------------------------------------------------
(* Claim on the alignment of the macro buffers, checked under Spec. *)

(* the grouping key of a triple on a side, spelled out *)
GroupingKey(hrt, side) == IF side = LABEL_HEAD THEN <<hrt[2], hrt[3]>> ELSE <<hrt[1], hrt[2]>>

(* on the macro accumulator every side has as many keys as ranks of each
   base rank type, the both view is head followed by tail for keys and for
   ranks, and no finalize has failed the shape assertion *)
MacroAligned ==
    (variant = "macro") =>
        /\ \A t \in Targets, rt \in Range(RANK_TYPES) : Len(keys[t]) = Len(ranks[<<t, rt>>])
        /\ _get_keys(keys, SIDE_BOTH) = keys[LABEL_HEAD] \o keys[LABEL_TAIL]
        /\ \A rt \in Range(RANK_TYPES) :
               /\ _get_ranks(ranks, SIDE_BOTH, rt) = ranks[<<LABEL_HEAD, rt>>] \o ranks[<<LABEL_TAIL, rt>>]
               /\ Len(_get_keys(keys, SIDE_BOTH)) = Len(_get_ranks(ranks, SIDE_BOTH, rt))
        /\ (ret.op = "finalize" => ret.error # "AssertionError")

(* an ingest that returns on the macro accumulator appends, at the same
   positions of the batch's side, the key and the ranks of each row of the
   batch, and leaves the other side alone *)
MacroAppendsAligned ==
    (variant = "macro" /\ ret'.op = "process_scores_" /\ ret'.ok) =>
        /\ Len(keys'[ret'.target]) = Len(keys[ret'.target]) + Len(ret'.rows)
        /\ \A i \in 1..Len(keys[ret'.target]) :
               /\ keys'[ret'.target][i] = keys[ret'.target][i]
               /\ \A rt \in Range(RANK_TYPES) : ranks'[<<ret'.target, rt>>][i] = ranks[<<ret'.target, rt>>][i]
        /\ \A i \in 1..Len(ret'.rows) :
               /\ keys'[ret'.target][Len(keys[ret'.target]) + i] = GroupingKey(ret'.rows[i].hrt, ret'.target)
               /\ ranks'[<<ret'.target, RANK_OPTIMISTIC>>][Len(keys[ret'.target]) + i] = RInt(ret'.rows[i].o)
               /\ ranks'[<<ret'.target, RANK_PESSIMISTIC>>][Len(keys[ret'.target]) + i] = RInt(ret'.rows[i].p)
               /\ ranks'[<<ret'.target, RANK_REALISTIC>>][Len(keys[ret'.target]) + i]
                      = Rat(ret'.rows[i].o + ret'.rows[i].p, 2)
        /\ \A t \in Targets \ {ret'.target} :
               /\ keys'[t] = keys[t]
               /\ \A rt \in Range(RANK_TYPES) : ranks'[<<t, rt>>] = ranks[<<t, rt>>]

(* C20: through every sequence of ingest and finalize calls on the macro
   accumulator, each side's key buffer and base rank buffers have the same
   length, the i-th key is the grouping key of the example whose ranks are
   the i-th, the both view concatenates head then tail for keys and ranks,
   and the shape assertion of finalize never fails. *)
C20_MacroBuffersAligned == [](MacroAligned) /\ [][MacroAppendsAligned]_vars

(* after a finalize, a batch of two head examples with different grouping
   keys was ingested on the macro accumulator *)
C20_Witness ==
    /\ variant = "macro"
    /\ finalized
    /\ ret.op = "process_scores_" /\ ret.ok
    /\ ret.target = LABEL_HEAD
    /\ Len(ret.rows) = 2
    /\ GroupingKey(ret.rows[1].hrt, LABEL_HEAD) # GroupingKey(ret.rows[2].hrt, LABEL_HEAD)
    /\ ret.rows[1].o # ret.rows[2].o

---------------------------------------------------------------------------
(* Claims on the recorded candidate count, checked under Spec. *)

(* C26: after every ingest that returns on the sampled accumulator, the
   recorded candidate count is the second dimension of the scorer's full
   score array, and not one plus the number of sampled negatives the ranks
   were computed among. *)
C26_SampledRecordsFullCount ==
    [][(variant = "sampled" /\ ret'.op = "process_scores_" /\ ret'.ok) =>
          num_entities' = ret'.width]_vars

(* a sampled ingest over a full array wider than the sampled scores has
   returned on an accumulator that holds observations *)
C26_Witness ==
    /\ variant = "sampled"
    /\ ret.op = "process_scores_" /\ ret.ok
    /\ ret.width = 2 + NumNegatives
    /\ num_entities = 2 + NumNegatives
    /\ Buffered(ranks) > 0

(* C30: once a candidate count is recorded, the micro finalize returns
   results whatever the buffers hold; it never fails with a division error. *)
C30_MicroFinalizeNeverDivides ==
    [][(variant = "micro" /\ num_entities # None /\ ret'.op = "finalize") =>
          ret'.ok]_vars

---------------------------------------------------------------------------
(* Claim on the rows of the negative tables, checked under SpecNeg. *)

(* how often entity e occurs in a row *)
Occurrences(row, e) == Cardinality({j \in DOMAIN row : row[j] = e})

(* C27: in every row of a returned table, the entries are pairwise distinct
   when the pool of the row's group has at least num_samples entries, and no
   entity occurs more than ceil(num_samples / pool size) times when the pool
   was tiled. *)
C27_RowMultiplicity ==
    (neg.op # "" /\ neg.ok) =>
        \A side \in Targets, i \in DOMAIN neg.args.evaluation_triples :
            LET size == Len(NegPool(side, i))
                most == IF size >= neg.args.num_samples THEN size ELSE neg.args.num_samples + size - 1
            IN  \A e \in NegIds : Occurrences(neg.negatives[side][i], e) * size <= most

(* a direct call has returned a row of three drawn from a tiled pool of two,
   one entity twice *)
C27_Witness ==
    /\ neg.op = "sample_negatives" /\ neg.ok
    /\ \E side \in Targets, i \in DOMAIN neg.args.evaluation_triples :
           /\ Len(NegPool(side, i)) = 2
           /\ neg.args.num_samples = 3
           /\ \E e \in NegIds : Occurrences(neg.negatives[side][i], e) = 2

---------------------------------------------------------------------------
(* Claims on the weights of the macro finalize, checked under SpecStat. *)

(* the observations of a side view, each as its side and its grouping key:
   the both view is the head observations followed by the tail ones *)
ViewOf(hrt, side) ==
    LET of(t) == [i \in 1..Len(hrt[t]) |-> [side |-> t, key |-> GroupingKey(hrt[t][i], t)]]
    IN  IF side = SIDE_BOTH THEN of(LABEL_HEAD) \o of(LABEL_TAIL) ELSE of(side)

(* the positions of a view whose key is the pair of ids key *)
WithKey(view, key) == {j \in 1..Len(view) : view[j].key = key}

(* the sum of the weights at a set of positions *)
RECURSIVE SumAt(_, _)
SumAt(w, positions) ==
    IF positions = {} THEN RInt(0)
    ELSE LET j == CHOOSE x \in positions : TRUE
         IN  RAdd(w[j], SumAt(w, positions \ {j}))

(* C21: at the macro finalize, on each of the sides head, tail and both, the
   weight of an observation is one over the number of observations of the
   view with its grouping key, so the weights of one key sum to 1 and all
   weights sum to the number of distinct keys of the view. *)
C21_MacroWeights ==
    (stat.op = "weights") =>
        \A side \in Range(SIDES) :
            LET view == ViewOf(stat.hrt, side)
                w == stat.weights[side]
            IN  /\ Len(w) = Len(view)
                /\ \A i \in 1..Len(view) :
                       /\ w[i] = Rat(1, Cardinality(WithKey(view, view[i].key)))
                       /\ SumAt(w, WithKey(view, view[i].key)) = RInt(1)
                /\ SumAt(w, 1..Len(view)) = RInt(Cardinality({view[i].key : i \in 1..Len(view)}))

(* the both view held three observations of one key and one of another:
   three weights of a third and one weight of 1 *)
C21_Witness ==
    /\ stat.op = "weights"
    /\ Len(stat.hrt[LABEL_HEAD]) = 3
    /\ stat.weights[SIDE_BOTH] = <<Rat(1, 3), Rat(1, 3), Rat(1, 3), Rat(1, 1)>>

(* C29: in the both view an observation is weighted by the observations of
   its own side with its key only: a head observation and a tail observation
   with the same pair of ids as key do not lower each other's weight. *)
C29_SidesWeightedApart ==
    (stat.op = "weights") =>
        LET view == ViewOf(stat.hrt, SIDE_BOTH)
        IN  \A i \in 1..Len(view) :
                stat.weights[SIDE_BOTH][i]
                    = Rat(1, Cardinality({j \in WithKey(view, view[i].key) : view[j].side = view[i].side}))

---------------------------------------------------------------------------
(* Claims on weighted_median, checked under SpecStat. *)

(* the weight of the elements of a that are at most x *)
WeightUpTo(a, weights, x) == SumAt(weights, {j \in 1..Len(a) : RLeq(a[j], x)})

(* the element of the ascending a at the first index whose cumulative weight
   fraction, its own weight included, is at least one half: the least element
   up to which at least half of the weight lies *)
HalfWeightElement(a, weights) ==
    CHOOSE x \in {a[j] : j \in 1..Len(a)} :
        /\ RLeq(SumAt(weights, 1..Len(a)), RMul(RInt(2), WeightUpTo(a, weights, x)))
        /\ \A y \in {a[j] : j \in 1..Len(a)} :
               RLeq(SumAt(weights, 1..Len(a)), RMul(RInt(2), WeightUpTo(a, weights, y))) => RLeq(x, y)

(* C22: for every non-empty input with positive weights, weighted_median
   returns the element of the ascending values at the first index whose
   cumulative weight fraction, that element's weight included, is at least
   0.5. *)
C22_WeightedMedianValue ==
    (stat.op = "weighted_median") =>
        (stat.ok /\ stat.value = HalfWeightElement(stat.a, stat.weights))

(* C23: for equal weights, weighted_median returns the median of the sample,
   of odd or even length. *)
C23_UniformWeightsGiveMedian ==
    (stat.op = "weighted_median" /\ \A j \in 1..Len(stat.a) : stat.weights[j] = stat.weights[1]) =>
        (stat.ok /\ stat.value = np_median(stat.a))

(* C28: for every non-empty input with positive weights, weighted_median
   returns an element of its input and never indexes past its end. *)
C28_WeightedMedianInRange ==
    (stat.op = "weighted_median") =>
        (stat.ok /\ \E j \in 1..Len(stat.a) : stat.value = stat.a[j])

---------------------------------------------------------------------------
(* Claim on the order of the batches, checked under SpecStat. *)

(* C24: finalize returns the same results after the same two batches
   ingested in either order, also when their candidate counts differ and a
   fractional k is configured. *)
C24_OrderIndependent ==
    (stat.op = "orders") => (stat.first = stat.second)

---------------------------------------------------------------------------
(* Claim on unsynchronized ingests, checked under SpecRace. *)

(* the callers that stand between the rank append and the key append of an
   ingest on side t *)
InFlight(t) == {i \in RaceCallers : race[i].pc = "super_returned" /\ race[i].target = t}

(* the positions of side t that hold a key and a rank of different examples *)
Crossed(t) ==
    {n \in 1..Len(keys[t]) :
        \E i \in RaceCallers :
            /\ ranks[<<t, RANK_OPTIMISTIC>>][n] = RInt(RaceRow(i).o)
            /\ keys[t][n] # GroupingKey(RaceRow(i).hrt, t)}

(* each side has as many ranks more than keys as callers stand between their
   two appends on it, and a key is paired with another example's rank only
   where both callers ingested on the side *)
RaceMisalignedByCallers ==
    \A t \in Targets :
        /\ \A rt \in Range(RANK_TYPES) :
               Len(ranks[<<t, rt>>]) = Len(keys[t]) + Cardinality(InFlight(t))
        /\ (Crossed(t) # {}) => (\A i \in RaceCallers : race[i].pc = "done" /\ race[i].target = t)
                                    \/ (\E i \in RaceCallers : i \in InFlight(t))

(* a finalize that runs while a caller stands between its two appends does
   not return results, and the shape assertion fails only then *)
RaceFinalizeInBetween ==
    (race[0].pc = "idle" /\ race'[0].pc = "done") =>
        /\ ((\E t \in Targets : InFlight(t) # {}) => ~ret'.ok)
        /\ (ret'.error = "AssertionError" => \E t \in Targets : InFlight(t) # {})

(* C25: ingest on the macro accumulator is not atomic: with another ingest
   for the side, or finalize, running between its rank append and its key
   append, the key buffer and the rank buffers of the side are misaligned,
   in length while a caller stands between its two appends and in the pairing
   of keys and ranks once two callers' appends crossed. *)
C25_IngestNotAtomic == [](RaceMisalignedByCallers) /\ [][RaceFinalizeInBetween]_vars

(* both callers returned from an ingest on the head side, the buffers have
   equal lengths, and each of the two keys stands at the position of the
   other example's rank *)
C25_Witness ==
    /\ \A i \in RaceCallers : race[i].pc = "done" /\ race[i].target = LABEL_HEAD
    /\ Len(keys[LABEL_HEAD]) = 2
    /\ Len(ranks[<<LABEL_HEAD, RANK_OPTIMISTIC>>]) = 2
    /\ Crossed(LABEL_HEAD) = {1, 2}

=============================================================================
